---- MODULE Spec2Model ----
(***************************************************************************)
(* Model of the Express/Prisma REST API of oluwadamilarey/api-interview:   *)
(* JWT authentication (auth.ts), the route pipeline (routes.ts), the post, *)
(* comment and user handlers (posts.ts, comments.ts, users.ts), the        *)
(* central error handler (app.ts) and the relational store behind Prisma   *)
(* (schema.prisma).  Every database call of a handler is one atomic step;  *)
(* the synchronous code around it belongs to the step of the call it       *)
(* follows, so two requests interleave exactly at the handlers' awaits.    *)
(***************************************************************************)
EXTENDS Integers, Sequences, FiniteSets, TLC

\* ------------------------------------------------------------------ bounds
MaxUsers == 2
MaxComments == 1
MaxTime == 3

\* jwtConfig.expiresIn / generateToken's expiresIn, in clock ticks
ExpiresIn == 2

\* the requests one window of a limiter counts
MaxHits == 12

\* the posts a listing is taken of, and the characters of a query value
MaxPosts == 3
MaxDigits == 2

\* the connections open at once while the server closes
MaxConns == 3

\* the requests that can be in flight together
Slots == {1, 2}

\* the ids the store hands out, in this order, and never twice
UserIds == 1..MaxUsers
PostIds == {1}
CommentIds == 1..MaxComments

Roles == {"user", "admin"}
Emails == {"a@x", "b@x"}

\* ------------------------------------------------------------- the store
\* model User / Post / Comment: the columns the handlers read or write
NoUser == [id |-> 0, email |-> "", role |-> ""]
NoPost == [id |-> 0, userId |-> 0, title |-> ""]
NoComment == [id |-> 0, userId |-> 0, postId |-> 0, content |-> ""]

VARIABLES users, posts, comments, userSeq, postSeq, commentSeq,
          now, held, heldFor, reqs, hits, admitted, authHits, authAdmitted,
          listing, profiles, proc

vars == <<users, posts, comments, userSeq, postSeq, commentSeq,
          now, held, heldFor, reqs, hits, admitted, authHits, authAdmitted,
          listing, profiles, proc>>

\* createPostLimiter's store for the client's address: the requests counted
\* in the current window, and how many of them it passed on to the handler
postLimiter == <<hits, admitted>>

\* authLimiter's store for the client's address, in the same way
authLimiterStore == <<authHits, authAdmitted>>

limiter == <<postLimiter, authLimiterStore>>

\* followed on their own: the listing of posts, the columns of User that
\* only the profile handlers touch, and the process with its signals
aside == <<listing, profiles, proc>>

\* what the steps of the request handlers leave as it is
apart == <<limiter, aside>>

\* the client's side: the clock, the token it keeps and whom it was issued for
client == <<now, held, heldFor>>

db == <<users, posts, comments, userSeq, postSeq, commentSeq>>

Without(f, ks) == [k \in DOMAIN f \ ks |-> f[k]]

With(f, k, v) == [x \in DOMAIN f \cup {k} |-> IF x = k THEN v ELSE f[x]]

\* prisma.user.findUnique({ where: { id } })
findUser(id) == IF id \in DOMAIN users THEN users[id] ELSE NoUser

\* prisma.user.findUnique({ where: { email } })
findUserByEmail(e) ==
    IF \E i \in DOMAIN users : users[i].email = e
    THEN users[CHOOSE i \in DOMAIN users : users[i].email = e]
    ELSE NoUser

\* prisma.post.findUnique({ where: { id } })
findPost(id) == IF id \in DOMAIN posts THEN posts[id] ELSE NoPost

\* prisma.comment.findUnique({ where: { id } })
findComment(id) == IF id \in DOMAIN comments THEN comments[id] ELSE NoComment

\* comments removed with a post: deleteMany({ postId }) and onDelete: Cascade
CommentsOfPost(cs, pid) == {c \in DOMAIN cs : cs[c].postId = pid}

\* rows removed with a user: deleteMany({ userId }) and onDelete: Cascade
PostsOfUser(ps, uid) == {p \in DOMAIN ps : ps[p].userId = uid}

CommentsOfUser(cs, ps, uid) ==
    {c \in DOMAIN cs : cs[c].userId = uid \/ cs[c].postId \in PostsOfUser(ps, uid)}

\* ------------------------------------------------------------------ tokens
JwtSecret == "JWT_SECRET"

NoClaims == [userId |-> 0, email |-> "", role |-> "", iat |-> 0, exp |-> 0]

\* HMAC of the encoded claims under a secret
Hmac(claims, secret) == <<secret, claims>>

NoToken == [claims |-> NoClaims, sig |-> <<"", NoClaims>>]

\* a faulty signer, to compare with: it writes the default role into every token
jwtSignDefaultRole(user, secret, iat, ttl) ==
    LET claims == [userId |-> user.id, email |-> user.email, role |-> "user",
                   iat |-> iat, exp |-> iat + ttl]
    IN [claims |-> claims, sig |-> Hmac(claims, secret)]

\* jwt.sign({ userId, email, role }, secret, { expiresIn })
jwtSign(user, secret, iat, ttl) ==
    LET claims == [userId |-> user.id, email |-> user.email, role |-> user.role,
                   iat |-> iat, exp |-> iat + ttl]
    IN [claims |-> claims, sig |-> Hmac(claims, secret)]

\* jwt.verify(token, secret): the decoded claims, or the error it throws
jwtVerify(tok, secret, t) ==
    IF tok.sig # Hmac(tok.claims, secret)
    THEN [err |-> "JsonWebTokenError", decoded |-> NoClaims]
    ELSE IF t >= tok.claims.exp
         THEN [err |-> "TokenExpiredError", decoded |-> NoClaims]
         ELSE [err |-> "", decoded |-> tok.claims]

\* jsonwebtoken: class TokenExpiredError extends JsonWebTokenError
IsJsonWebTokenError(e) == e \in {"JsonWebTokenError", "TokenExpiredError"}

\* a token signed by somebody who does not hold the secret
Forged == [claims |-> [userId |-> 1, email |-> "a@x", role |-> "admin",
                       iat |-> 0, exp |-> MaxTime + 2],
           sig |-> Hmac(NoClaims, "guess")]

\* the Authorization header: absent, or the words of "Bearer <token>"
NoHeader == <<>>

Bearer(tok) == <<"Bearer", tok>>

\* req.headers.authorization?.split(" ")[1]
ExtractToken(hdr) == IF Len(hdr) >= 2 THEN hdr[2] ELSE NoToken

\* testHelpers.generateToken(user) at time iat; login and signup sign the
\* same way, for the stored row
generateToken(user, iat) == jwtSign(user, JwtSecret, iat, ExpiresIn)

\* the headers a client can send: none, "Bearer" without a token, a forged
\* token, the token it keeps, or the token a stored account is given when it
\* logs in now
Headers == {NoHeader, <<"Bearer">>, Bearer(Forged)}
           \cup (IF held = NoToken THEN {} ELSE {Bearer(held)})
           \cup {Bearer(generateToken(users[i], now)) : i \in DOMAIN users}

\* ---------------------------------------------------------------- requests
\* routes.ts: the routes behind authenticate, and those also behind requireAdmin
AdminRoutes == {"createAdmin", "adminDocs"}

ProtectedRoutes == {"createPost", "updatePost", "deletePost",
                    "createComment", "updateComment", "deleteComment"}
                   \cup AdminRoutes

PublicRoutes == {"getMany", "getOne", "getByPost"}

\* the user-management handlers of users.ts, which the README lists as admin
\* only; routes.ts registers none of them
UserRoutes == {"updateUserRole", "deleteUser"}

\* the profile handler of users.ts, which reads req.user and so stands
\* behind authenticate
ProfileRoutes == {"updateProfile"}

\* routes.ts: the middleware in front of each route's handler (the rate
\* limiters, which are outside this model, left out)
Chain(route) ==
    IF route \in AdminRoutes \cup UserRoutes THEN <<"authenticate", "requireAdmin">>
    ELSE IF route \in ProtectedRoutes \cup ProfileRoutes THEN <<"authenticate">>
    ELSE <<>>

HasStep(route, mw) == \E i \in DOMAIN Chain(route) : Chain(route)[i] = mw

\* the values of the :id / :postId path parameter a client tries
PathIds(route) ==
    IF route \in {"updatePost", "deletePost", "getOne", "getByPost", "createComment"}
    THEN PostIds \cup DOMAIN posts
    ELSE IF route \in {"updateComment", "deleteComment"}
         THEN CommentIds \cup DOMAIN comments
    ELSE IF route \in UserRoutes THEN UserIds
    ELSE {0}

\* the request bodies (for the listings, the queries) a client tries, by what
\* the handler's schema makes of them: "bad" fails the schema, "none" is the
\* empty update, "new" carries a new text, "page0" is the query page=0
Bodies(route) ==
    IF route = "updatePost" THEN {"bad", "none", "new"}
    ELSE IF route = "updateComment" THEN {"bad", "new"}
    ELSE IF route \in {"createPost", "createComment", "getByPost"} THEN {"bad", "ok"}
    ELSE IF route = "getMany" THEN {"bad", "page0", "ok"}
    ELSE IF route = "updateUserRole" THEN {"bad"} \cup Roles
    ELSE IF route = "updateProfile" THEN {"bad", "name", "extra", "pwOld", "pwNew"}
    ELSE {""}

\* the postId a createComment body names
BodyPostIds(route) ==
    IF route = "createComment" THEN PostIds \cup DOMAIN posts ELSE {0}

\* the id a body names besides its text: the postId of a createComment body,
\* and for a post's create and update bodies a userId key the client adds,
\* naming the first account (0: the body has no such key)
BodyRefs(route) ==
    IF route \in {"createPost", "updatePost"} THEN {0, 1}
    ELSE BodyPostIds(route)

\* a faulty schema, to compare with: the body's keys are passed on as they are
updatePostSchemaPassthrough(body, userId) ==
    [ok |-> body # "bad",
     title |-> IF body = "new" THEN "new" ELSE "",
     userId |-> userId]

\* updatePostSchema.parse(req.body): the keys of the result ("" and 0: no
\* such key); keys the schema does not name are dropped
updatePostSchema(body, userId) ==
    [ok |-> body # "bad",
     title |-> IF body = "new" THEN "new" ELSE "",
     userId |-> 0]

\* a request: where it stands, its route, req.params.id, req.user, the user
\* id and role its token decoded to or the error jwt.verify threw for it,
\* whether it carried a credential, its body, the postId in its body, and
\* the response once it is answered
Idle == [pc |-> "idle", route |-> "", id |-> 0, user |-> NoUser,
         tokUid |-> 0, tokRole |-> "", tokErr |-> "", cred |-> FALSE,
         data |-> "", ref |-> 0, status |-> 0, error |-> ""]

\* errorHandler (app.ts): the response to an error passed to next()
errorHandler(err) ==
    IF err.cls = "ZodError" THEN [status |-> 400, error |-> "Validation error"]
    ELSE IF err.cls = "types.CustomError"
         THEN [status |-> err.statusCode, error |-> err.message]
    ELSE IF IsJsonWebTokenError(err.cls)
         THEN [status |-> 401, error |-> "Invalid token"]
    ELSE [status |-> 500, error |-> err.message]

PrismaError(msg) == [cls |-> "PrismaClientKnownRequestError", statusCode |-> 0,
                     message |-> msg]

\* new CustomError(statusCode, message) of config.ts, the class users.ts imports
CustomError(code, msg) == [cls |-> "config.CustomError", statusCode |-> code,
                           message |-> msg]

ZodError == [cls |-> "ZodError", statusCode |-> 0, message |-> "invalid input"]

\* res.status(status).json(...): request q of slot r is answered, the slot freed
Reply(r, q, status, error) ==
    reqs' = [reqs EXCEPT ![r] = [q EXCEPT !.pc = "done", !.data = "", !.ref = 0,
                                          !.status = status, !.error = error]]

\* next(error): the error handler answers
Fail(r, q, err) == Reply(r, q, errorHandler(err).status, errorHandler(err).error)

\* an async handler without try/catch throws: its promise rejects, and either
\* the framework passes the error on to the error handler, or nobody handles
\* the rejection, the process exits (app.ts, unhandledRejection) and the
\* request gets no response
Throw(r, q, err) ==
    \/ Fail(r, q, err)
    \/ Reply(r, q, 0, "unhandledRejection")

\* the request goes on to its next step
Goto(r, q) == reqs' = [reqs EXCEPT ![r] = q]

\* slot r is free for the next request
Free(r) == reqs[r].pc \in {"idle", "done"}

\* no listing asked for yet
NoListing == [asked |-> FALSE]

\* the profile columns left out
NoProfiles == <<>>

\* the process up and serving: no signal yet
Running == [pc |-> "running"]

\* ------------------------------------------------------------------- Init
\* the store as seeded with its first admin; nothing in flight
Init ==
    /\ users = (1 :> [id |-> 1, email |-> "a@x", role |-> "admin"])
    /\ posts = <<>>
    /\ comments = <<>>
    /\ userSeq = 1
    /\ postSeq = 0
    /\ commentSeq = 0
    /\ now = 0
    /\ held = NoToken
    /\ heldFor = NoUser
    /\ reqs = [r \in Slots |-> Idle]
    /\ hits = 0
    /\ admitted = 0
    /\ authHits = 0
    /\ authAdmitted = 0
    /\ listing = NoListing
    /\ profiles = NoProfiles
    /\ proc = Running

\* ------------------------------------------------------------ middleware
\* faulty variants of authenticate, to compare with.  The first lets a request
\* without a token through as nobody
authenticateOptional(hdr, t) ==
    LET token == ExtractToken(hdr)
        v == jwtVerify(token, JwtSecret, t)
        user == findUser(v.decoded.userId)
    IN IF token = NoToken
       THEN [status |-> 0, error |-> "", user |-> NoUser]
       ELSE IF v.err # "" \/ user = NoUser
            THEN [status |-> 401, error |-> "Invalid token", user |-> NoUser]
       ELSE [status |-> 0, error |-> "", user |-> user]

\* the second trusts the role in the token instead of the stored one
authenticateTokenRole(hdr, t) ==
    LET token == ExtractToken(hdr)
        v == jwtVerify(token, JwtSecret, t)
        user == findUser(v.decoded.userId)
    IN IF token = NoToken
       THEN [status |-> 401, error |-> "Authentication required", user |-> NoUser]
       ELSE IF v.err # "" \/ user = NoUser
            THEN [status |-> 401, error |-> "Invalid token", user |-> NoUser]
       ELSE [status |-> 0, error |-> "", user |-> [user EXCEPT !.role = v.decoded.role]]

\* the third does not look at the result of the lookup
authenticateUnchecked(hdr, t) ==
    LET token == ExtractToken(hdr)
        v == jwtVerify(token, JwtSecret, t)
        user == findUser(v.decoded.userId)
    IN IF token = NoToken
       THEN [status |-> 401, error |-> "Authentication required", user |-> NoUser]
       ELSE IF v.err # ""
            THEN [status |-> 401, error |-> "Invalid token", user |-> NoUser]
       ELSE [status |-> 0, error |-> "", user |-> user]

\* authenticate (auth.ts): the response it sends, or the user it attaches
authenticate(hdr, t) ==
    LET token == ExtractToken(hdr)
        v == jwtVerify(token, JwtSecret, t)
        user == findUser(v.decoded.userId)
    IN IF token = NoToken
       THEN [status |-> 401, error |-> "Authentication required", user |-> NoUser]
       ELSE IF v.err # ""
            THEN IF IsJsonWebTokenError(v.err)
                 THEN [status |-> 401, error |-> "Invalid token", user |-> NoUser]
                 ELSE [status |-> 500, error |-> v.err, user |-> NoUser]
       ELSE IF user = NoUser
            THEN [status |-> 401, error |-> "Invalid token", user |-> NoUser]
       ELSE [status |-> 0, error |-> "", user |-> user]

\* the request a client sends: its route, parameters, body and header
Request(route, id, body, postId, hdr, t) ==
    LET v == jwtVerify(ExtractToken(hdr), JwtSecret, t)
    IN [Idle EXCEPT !.route = route, !.id = id, !.data = body, !.ref = postId,
                    !.cred = (ExtractToken(hdr) # NoToken),
                    !.tokErr = IF ExtractToken(hdr) = NoToken THEN "" ELSE v.err,
                    !.tokUid = v.decoded.userId, !.tokRole = v.decoded.role]

\* a request to one of the given routes behind authenticate arrives; on the
\* routes in limited the route's own limiter stands between authenticate and
\* the handler, on the others the client is taken to be within its limits
AuthenticateVia(r, routes, limited) ==
    /\ UNCHANGED apart
    /\ Free(r)
    /\ \E route \in routes, hdr \in Headers :
         \E id \in PathIds(route), body \in Bodies(route), postId \in BodyRefs(route) :
            LET a == authenticate(hdr, now)
                q == Request(route, id, body, postId, hdr, now)
            IN /\ HasStep(route, "authenticate")
               /\ IF a.status # 0
                  THEN Reply(r, q, a.status, a.error)
                  ELSE Goto(r, [q EXCEPT !.user = a.user,
                                         !.pc = IF HasStep(route, "requireAdmin")
                                                THEN "requireAdmin"
                                                ELSE IF route \in limited
                                                     THEN "createPostLimiter"
                                                ELSE "handler"])
    /\ UNCHANGED <<db, client>>

Authenticate(r, routes) == AuthenticateVia(r, routes, {})

\* postRateLimits (posts.ts), windowMs in hours
postRateLimits == [create |-> [windowMs |-> 1, max |-> 10]]

\* a faulty limiter decision, to compare with: one request too many passes
rateLimitOnePast(options, totalHits) == totalHits > options.max + 1

\* rateLimit(options): the request that makes the client's count totalHits is
\* refused when the count exceeds options.max
rateLimit(options, totalHits) == totalHits > options.max

\* createPostLimiter = rateLimit(postRateLimits.create), between authenticate
\* and postHandlers.create: the count is read and raised in one step, a
\* refused request is answered 429, another is handed to the handler
CreatePostLimiter(r) ==
    /\ reqs[r].pc = "createPostLimiter"
    /\ hits < MaxHits
    /\ hits' = hits + 1
    /\ UNCHANGED <<db, client, authLimiterStore, aside>>
    /\ IF rateLimit(postRateLimits.create, hits + 1)
       THEN /\ Reply(r, reqs[r], 429, "Too many requests")
            /\ admitted' = admitted
       ELSE /\ Goto(r, [reqs[r] EXCEPT !.pc = "handler"])
            /\ admitted' = admitted + 1

\* postRateLimits.create.windowMs has passed: the limiter's window ends and
\* its counts start again
WindowReset ==
    /\ hits > 0
    /\ hits' = 0
    /\ admitted' = 0
    /\ UNCHANGED <<db, client, reqs, authLimiterStore, aside>>

\* a request to one of the given routes arrives and reaches its handler
\* without passing authenticate
Public(r, routes) ==
    /\ UNCHANGED apart
    /\ Free(r)
    /\ \E route \in routes, hdr \in {NoHeader} \cup Headers :
         \E id \in PathIds(route), body \in Bodies(route) :
            /\ ~HasStep(route, "authenticate")
            /\ Goto(r, [Request(route, id, body, 0, hdr, now) EXCEPT !.pc = "handler"])
    /\ UNCHANGED <<db, client>>

\* the paths of the README's user management, none of which routes.ts
\* registers
UnroutedRoutes == UserRoutes \cup {"getUsers"}

\* a request to a path no route matches arrives: the router passes it on and
\* the not-found handler of app.ts answers
NotFoundHandler(r) ==
    /\ UNCHANGED apart
    /\ Free(r)
    /\ \E route \in UnroutedRoutes, hdr \in Headers :
         \E id \in PathIds(route), body \in Bodies(route) :
            Reply(r, Request(route, id, body, 0, hdr, now), 404, "Not found")
    /\ UNCHANGED <<db, client>>

\* a faulty requireAdmin, to compare with: any authenticated user passes
requireAdminAnyUser(user) == user # NoUser

\* requireAdmin (auth.ts)
requireAdmin(user) == user.role = "admin"

\* requireAdmin as a step of the chain; on the routes in limited authLimiter
\* stands between it and the handler
RequireAdminVia(r, limited) ==
    /\ UNCHANGED apart
    /\ reqs[r].pc = "requireAdmin"
    /\ IF requireAdmin(reqs[r].user)
       THEN Goto(r, [reqs[r] EXCEPT !.pc = IF reqs[r].route \in limited
                                          THEN "authLimiter" ELSE "handler"])
       ELSE Reply(r, reqs[r], 403, "Admin access required")
    /\ UNCHANGED <<db, client>>

RequireAdmin(r) == RequireAdminVia(r, {})

\* faulty checks, to compare with: any authenticated user, the owner only,
\* admins only
AuthorizedAnyUser(row, user) == user # NoUser

AuthorizedOwnerOnly(row, user) == row.userId = user.id

AuthorizedAdminOnly(row, user) == user.role = "admin"

\* the ownership / admin check of the post and comment handlers
\* (row.userId !== req.user!.id && req.user!.role !== "admin" denies)
Authorized(row, user) == ~(row.userId # user.id /\ user.role # "admin")

\* a faulty order, to compare with: the denial before the lookup's result
GuardDenialFirst(row, none, user) ==
    IF ~Authorized(row, user) THEN 403
    ELSE IF row = none THEN 404
    ELSE 0

\* a faulty handler, to compare with: the write without looking at the row
GuardSkipped(row, none, user) == 0

\* what an update or delete handler answers after its findUnique: 404 for no
\* row, else 403 for a denial, else nothing yet (0)
Guard(row, none, user) ==
    IF row = none THEN 404
    ELSE IF ~Authorized(row, user) THEN 403
    ELSE 0

\* ----------------------------------------------------------- postHandlers
AtHandler(r, route) == reqs[r].pc = "handler" /\ reqs[r].route = route

AtWrite(r, route) == reqs[r].pc = "write" /\ reqs[r].route = route

\* a faulty owner of a new post, to compare with: the body's userId key wins
createPostUserIdFromBody(user, bodyUserId) ==
    IF bodyUserId = 0 THEN user.id ELSE bodyUserId

\* the userId postHandlers.create stores: { title, content } are taken from
\* the parsed body and userId: req.user!.id is set beside them, so a userId
\* key of the body (0: none) is not read
createPostUserId(user, bodyUserId) == user.id

\* postHandlers.create: parse, then prisma.post.create; the answered request
\* keeps the body's userId key beside the created row's id
PostCreate(r) ==
    /\ UNCHANGED apart
    /\ AtHandler(r, "createPost")
    /\ UNCHANGED <<users, comments, userSeq, commentSeq, client>>
    /\ LET userId == createPostUserId(reqs[r].user, reqs[r].ref)
       IN IF reqs[r].data = "bad"
          THEN Reply(r, reqs[r], 400, "ZodError") /\ UNCHANGED <<posts, postSeq>>
          ELSE IF userId \notin DOMAIN users
               THEN /\ Fail(r, reqs[r],
                            PrismaError("Foreign key constraint failed"))
                    /\ UNCHANGED <<posts, postSeq>>
          ELSE /\ postSeq + 1 \in PostIds
               /\ postSeq' = postSeq + 1
               /\ posts' = With(posts, postSeq + 1,
                                [id |-> postSeq + 1, userId |-> userId,
                                 title |-> "old"])
               /\ reqs' = [reqs EXCEPT ![r] =
                              [reqs[r] EXCEPT !.pc = "done", !.data = "",
                                              !.id = postSeq + 1,
                                              !.status = 201, !.error = ""]]

\* postHandlers.update up to the call of prisma.post.update
PostUpdateLoad(r) ==
    /\ UNCHANGED apart
    /\ AtHandler(r, "updatePost")
    /\ UNCHANGED <<db, client>>
    /\ LET g == Guard(findPost(reqs[r].id), NoPost, reqs[r].user)
       IN IF ~updatePostSchema(reqs[r].data, reqs[r].ref).ok
          THEN Reply(r, reqs[r], 400, "ZodError")
          ELSE IF g = 404 THEN Reply(r, reqs[r], 404, "Post not found")
          ELSE IF g = 403
               THEN Reply(r, reqs[r], 403, "Not authorized to update this post")
          ELSE Goto(r, [reqs[r] EXCEPT !.pc = "write"])

\* prisma.post.update({ where: { id }, data: updates }) and the response
PostUpdateWrite(r) ==
    /\ UNCHANGED apart
    /\ AtWrite(r, "updatePost")
    /\ UNCHANGED <<users, comments, userSeq, postSeq, commentSeq, client>>
    /\ LET updates == updatePostSchema(reqs[r].data, reqs[r].ref)
       IN IF reqs[r].id \notin DOMAIN posts
          THEN /\ Fail(r, reqs[r], PrismaError("Record to update not found"))
               /\ UNCHANGED posts
          ELSE /\ posts' = [posts EXCEPT
                     ![reqs[r].id].title =
                         IF updates.title = "" THEN @ ELSE updates.title,
                     ![reqs[r].id].userId =
                         IF updates.userId = 0 THEN @ ELSE updates.userId]
               /\ Reply(r, reqs[r], 200, "")

\* postHandlers.delete up to the call of prisma.$transaction
PostDeleteLoad(r) ==
    /\ UNCHANGED apart
    /\ AtHandler(r, "deletePost")
    /\ UNCHANGED <<db, client>>
    /\ LET g == Guard(findPost(reqs[r].id), NoPost, reqs[r].user)
       IN IF g = 404 THEN Reply(r, reqs[r], 404, "Post not found")
          ELSE IF g = 403
               THEN Reply(r, reqs[r], 403, "Not authorized to delete this post")
          ELSE Goto(r, [reqs[r] EXCEPT !.pc = "write"])

\* a faulty deletion, to compare with: deleteMany outside any transaction
PostDeleteManyCommitted(r) ==
    /\ UNCHANGED apart
    /\ AtWrite(r, "deletePost")
    /\ Goto(r, [reqs[r] EXCEPT !.pc = "tx"])
    /\ comments' = Without(comments, CommentsOfPost(comments, reqs[r].id))
    /\ UNCHANGED <<users, posts, userSeq, postSeq, commentSeq, client>>

\* the transaction's first statement, comment.deleteMany({ postId: id }):
\* run inside the open transaction, nothing is committed yet
PostDeleteMany(r) ==
    /\ UNCHANGED apart
    /\ AtWrite(r, "deletePost")
    /\ Goto(r, [reqs[r] EXCEPT !.pc = "tx"])
    /\ UNCHANGED <<db, client>>

\* the transaction's second statement, post.delete({ id }), and the commit;
\* a missing post makes the statement throw and the transaction roll back
PostDeleteCommit(r) ==
    /\ UNCHANGED apart
    /\ reqs[r].pc = "tx" /\ reqs[r].route = "deletePost"
    /\ UNCHANGED <<users, userSeq, postSeq, commentSeq, client>>
    /\ IF reqs[r].id \notin DOMAIN posts
       THEN /\ Fail(r, reqs[r], PrismaError("Record to delete does not exist"))
            /\ UNCHANGED <<posts, comments>>
       ELSE /\ posts' = Without(posts, {reqs[r].id})
            /\ comments' = Without(comments, CommentsOfPost(comments, reqs[r].id))
            /\ Reply(r, reqs[r], 204, "")

\* the store fails between the two statements: the transaction rolls back
PostDeleteAbort(r) ==
    /\ UNCHANGED apart
    /\ reqs[r].pc = "tx" /\ reqs[r].route = "deletePost"
    /\ Fail(r, reqs[r], PrismaError("Transaction failed"))
    /\ UNCHANGED <<db, client>>

\* postHandlers.getOne
PostGetOne(r) ==
    /\ UNCHANGED apart
    /\ AtHandler(r, "getOne")
    /\ UNCHANGED <<db, client>>
    /\ IF findPost(reqs[r].id) = NoPost
       THEN Reply(r, reqs[r], 404, "Post not found")
       ELSE Reply(r, reqs[r], 200, "")

\* postHandlers.getMany: querySchema, then the reads with skip = (page-1)*limit,
\* which the store refuses when negative
PostGetMany(r) ==
    /\ UNCHANGED apart
    /\ AtHandler(r, "getMany")
    /\ UNCHANGED <<db, client>>
    /\ IF reqs[r].data = "bad" THEN Reply(r, reqs[r], 400, "ZodError")
       ELSE IF reqs[r].data = "page0"
            THEN Fail(r, reqs[r], PrismaError("Invalid value for skip argument"))
       ELSE Reply(r, reqs[r], 200, "")

\* -------------------------------------------------------- commentHandlers
\* commentHandlers.create up to the call of prisma.comment.create; the post
\* is the one named by postId in the body
CommentCreateLoad(r) ==
    /\ UNCHANGED apart
    /\ AtHandler(r, "createComment")
    /\ UNCHANGED <<db, client>>
    /\ IF reqs[r].data = "bad" THEN Reply(r, reqs[r], 400, "ZodError")
       ELSE IF findPost(reqs[r].ref) = NoPost
            THEN Reply(r, reqs[r], 404, "Post not found")
       ELSE Goto(r, [reqs[r] EXCEPT !.pc = "write"])

\* a faulty create, to compare with: a store without foreign keys
CommentCreateWriteUnchecked(r) ==
    /\ UNCHANGED apart
    /\ AtWrite(r, "createComment")
    /\ UNCHANGED <<users, posts, userSeq, postSeq, client>>
    /\ commentSeq < MaxComments
    /\ commentSeq' = commentSeq + 1
    /\ comments' = With(comments, commentSeq + 1,
                        [id |-> commentSeq + 1, userId |-> reqs[r].user.id,
                         postId |-> reqs[r].ref, content |-> "old"])
    /\ Reply(r, reqs[r], 201, "")

\* prisma.comment.create: both foreign keys must name existing rows
CommentCreateWrite(r) ==
    /\ UNCHANGED apart
    /\ AtWrite(r, "createComment")
    /\ UNCHANGED <<users, posts, userSeq, postSeq, client>>
    /\ IF reqs[r].ref \notin DOMAIN posts \/ reqs[r].user.id \notin DOMAIN users
       THEN /\ Fail(r, reqs[r], PrismaError("Foreign key constraint failed"))
            /\ UNCHANGED <<comments, commentSeq>>
       ELSE /\ commentSeq < MaxComments
            /\ commentSeq' = commentSeq + 1
            /\ comments' = With(comments, commentSeq + 1,
                                [id |-> commentSeq + 1, userId |-> reqs[r].user.id,
                                 postId |-> reqs[r].ref, content |-> "old"])
            /\ Reply(r, reqs[r], 201, "")

\* a faulty handler, to compare with: the denial tells whose comment it is
CommentUpdateLoadTelling(r) ==
    /\ UNCHANGED apart
    /\ AtHandler(r, "updateComment")
    /\ UNCHANGED <<db, client>>
    /\ LET g == Guard(findComment(reqs[r].id), NoComment, reqs[r].user)
       IN IF reqs[r].data = "bad" THEN Reply(r, reqs[r], 400, "ZodError")
          ELSE IF g = 404 THEN Reply(r, reqs[r], 404, "Comment not found")
          ELSE IF g = 403
               THEN Reply(r, reqs[r], 403,
                          IF findComment(reqs[r].id).userId = 1
                          THEN "Not authorized: comment of user 1"
                          ELSE "Not authorized: comment of another user")
          ELSE Goto(r, [reqs[r] EXCEPT !.pc = "write"])

\* commentHandlers.update up to the call of prisma.comment.update
CommentUpdateLoad(r) ==
    /\ UNCHANGED apart
    /\ AtHandler(r, "updateComment")
    /\ UNCHANGED <<db, client>>
    /\ LET g == Guard(findComment(reqs[r].id), NoComment, reqs[r].user)
       IN IF reqs[r].data = "bad" THEN Reply(r, reqs[r], 400, "ZodError")
          ELSE IF g = 404 THEN Reply(r, reqs[r], 404, "Comment not found")
          ELSE IF g = 403 THEN Reply(r, reqs[r], 403, "Not authorized")
          ELSE Goto(r, [reqs[r] EXCEPT !.pc = "write"])

\* prisma.comment.update({ where: { id }, data: { content } })
CommentUpdateWrite(r) ==
    /\ UNCHANGED apart
    /\ AtWrite(r, "updateComment")
    /\ UNCHANGED <<users, posts, userSeq, postSeq, commentSeq, client>>
    /\ IF reqs[r].id \notin DOMAIN comments
       THEN /\ Fail(r, reqs[r], PrismaError("Record to update not found"))
            /\ UNCHANGED comments
       ELSE /\ comments' = [comments EXCEPT ![reqs[r].id].content = reqs[r].data]
            /\ Reply(r, reqs[r], 200, "")

\* a faulty handler, to compare with: the row is deleted before the checks
CommentDeleteLoadAfterWrite(r) ==
    /\ UNCHANGED apart
    /\ AtHandler(r, "deleteComment")
    /\ UNCHANGED <<users, posts, userSeq, postSeq, commentSeq, client>>
    /\ comments' = Without(comments, {reqs[r].id})
    /\ LET g == Guard(findComment(reqs[r].id), NoComment, reqs[r].user)
       IN IF g = 404 THEN Reply(r, reqs[r], 404, "Comment not found")
          ELSE IF g = 403 THEN Reply(r, reqs[r], 403, "Not authorized")
          ELSE Goto(r, [reqs[r] EXCEPT !.pc = "write"])

\* commentHandlers.delete up to the call of prisma.comment.delete
CommentDeleteLoad(r) ==
    /\ UNCHANGED apart
    /\ AtHandler(r, "deleteComment")
    /\ UNCHANGED <<db, client>>
    /\ LET g == Guard(findComment(reqs[r].id), NoComment, reqs[r].user)
       IN IF g = 404 THEN Reply(r, reqs[r], 404, "Comment not found")
          ELSE IF g = 403 THEN Reply(r, reqs[r], 403, "Not authorized")
          ELSE Goto(r, [reqs[r] EXCEPT !.pc = "write"])

\* prisma.comment.delete({ where: { id } })
CommentDeleteWrite(r) ==
    /\ UNCHANGED apart
    /\ AtWrite(r, "deleteComment")
    /\ UNCHANGED <<users, posts, userSeq, postSeq, commentSeq, client>>
    /\ IF reqs[r].id \notin DOMAIN comments
       THEN /\ Fail(r, reqs[r], PrismaError("Record to delete does not exist"))
            /\ UNCHANGED comments
       ELSE /\ comments' = Without(comments, {reqs[r].id})
            /\ Reply(r, reqs[r], 204, "")

\* commentHandlers.getByPost
CommentGetByPost(r) ==
    /\ UNCHANGED apart
    /\ AtHandler(r, "getByPost")
    /\ UNCHANGED <<db, client>>
    /\ IF reqs[r].data = "bad" THEN Reply(r, reqs[r], 400, "ZodError")
       ELSE IF findPost(reqs[r].id) = NoPost
            THEN Reply(r, reqs[r], 404, "Post not found")
       ELSE Reply(r, reqs[r], 200, "")

\* ----------------------------------------------------------- userHandlers
\* a faulty handler, to compare with: updateUserRole without its guard
UpdateUserRoleUnguarded(r) ==
    /\ UNCHANGED apart
    /\ AtHandler(r, "updateUserRole")
    /\ UNCHANGED <<posts, comments, userSeq, postSeq, commentSeq, client>>
    /\ IF reqs[r].data = "bad" THEN Throw(r, reqs[r], ZodError) /\ UNCHANGED users
       ELSE IF reqs[r].id \notin DOMAIN users
            THEN /\ Throw(r, reqs[r], PrismaError("Record to update not found"))
                 /\ UNCHANGED users
       ELSE /\ users' = [users EXCEPT ![reqs[r].id].role = reqs[r].data]
            /\ Reply(r, reqs[r], 200, "")

\* userHandlers.updateUserRole: parse, the self-update guard, user.update
UpdateUserRole(r) ==
    /\ UNCHANGED apart
    /\ AtHandler(r, "updateUserRole")
    /\ UNCHANGED <<posts, comments, userSeq, postSeq, commentSeq, client>>
    /\ IF reqs[r].data = "bad" THEN Throw(r, reqs[r], ZodError) /\ UNCHANGED users
       ELSE IF reqs[r].id = reqs[r].user.id
            THEN /\ Throw(r, reqs[r], CustomError(400, "Cannot update your own role"))
                 /\ UNCHANGED users
       ELSE IF reqs[r].id \notin DOMAIN users
            THEN /\ Throw(r, reqs[r], PrismaError("Record to update not found"))
                 /\ UNCHANGED users
       ELSE /\ users' = [users EXCEPT ![reqs[r].id].role = reqs[r].data]
            /\ Reply(r, reqs[r], 200, "")

\* userHandlers.deleteUser: the self-deletion guard, then one transaction
\* removing the user's comments, the user's posts and the user
DeleteUser(r) ==
    /\ UNCHANGED apart
    /\ AtHandler(r, "deleteUser")
    /\ UNCHANGED <<userSeq, postSeq, commentSeq, client>>
    /\ IF reqs[r].id = reqs[r].user.id
       THEN /\ Throw(r, reqs[r], CustomError(400, "Cannot delete your own account"))
            /\ UNCHANGED <<users, posts, comments>>
       ELSE IF reqs[r].id \notin DOMAIN users
            THEN /\ Throw(r, reqs[r], PrismaError("Record to delete does not exist"))
                 /\ UNCHANGED <<users, posts, comments>>
       ELSE /\ users' = Without(users, {reqs[r].id})
            /\ posts' = Without(posts, PostsOfUser(posts, reqs[r].id))
            /\ comments' = Without(comments,
                                   CommentsOfUser(comments, posts, reqs[r].id))
            /\ Reply(r, reqs[r], 204, "")

\* ----------------------------------------------------------- authHandlers
\* authHandlers.signup and authHandlers.createAdmin: the email lookup and the
\* create with the handler's fixed role
CreateAccount(r, q, email, role) ==
    IF email = "bad" THEN Reply(r, q, 400, "ZodError") /\ UNCHANGED <<users, userSeq>>
    ELSE IF findUserByEmail(email) # NoUser
         THEN /\ Reply(r, q, 400, "Email already registered")
              /\ UNCHANGED <<users, userSeq>>
    ELSE /\ userSeq < MaxUsers
         /\ userSeq' = userSeq + 1
         /\ users' = With(users, userSeq + 1,
                          [id |-> userSeq + 1, email |-> email, role |-> role])
         /\ Reply(r, [q EXCEPT !.id = userSeq + 1], 201, "")

\* the role signup stores, { ...data, password, role: "user" }, for a body
\* with a role key ("": no such key): the literal overrides what is spread
signupRole(bodyRole) == "user"

\* authHandlers.signup for request q
SignupAs(r, q) ==
    \E email \in {"bad"} \cup Emails, bodyRole \in {"", "admin"} :
        CreateAccount(r, q, email, signupRole(bodyRole))

Signup(r) ==
    /\ UNCHANGED apart
    /\ Free(r)
    /\ UNCHANGED <<posts, comments, postSeq, commentSeq, client>>
    /\ SignupAs(r, [Idle EXCEPT !.route = "signup"])

\* authHandlers.signup and authHandlers.createAdmin call by call, for
\* requests in flight together.  First the parse and the email lookup,
\* prisma.user.findUnique({ where: { email } }): the request goes on to the
\* create call with its email and, in ref, whether its body has a role key
AccountLoad(r, route) ==
    /\ UNCHANGED apart
    /\ AtHandler(r, route)
    /\ UNCHANGED <<db, client>>
    /\ \E email \in {"bad"} \cup Emails, bodyRole \in {"", "admin"} :
         IF email = "bad" THEN Reply(r, reqs[r], 400, "ZodError")
         ELSE IF findUserByEmail(email) # NoUser
              THEN Reply(r, reqs[r], 400, "Email already registered")
         ELSE Goto(r, [reqs[r] EXCEPT !.pc = "write", !.data = email,
                                      !.ref = IF bodyRole = "admin" THEN 1 ELSE 0])

\* then, after bcrypt.hash, prisma.user.create: User.email is @unique, so
\* the store refuses an email registered since the lookup
AccountWrite(r, route, role) ==
    /\ UNCHANGED apart
    /\ AtWrite(r, route)
    /\ UNCHANGED <<posts, comments, postSeq, commentSeq, client>>
    /\ IF findUserByEmail(reqs[r].data) # NoUser
       THEN /\ Fail(r, reqs[r], PrismaError("Unique constraint failed"))
            /\ UNCHANGED <<users, userSeq>>
       ELSE /\ userSeq < MaxUsers
            /\ userSeq' = userSeq + 1
            /\ users' = With(users, userSeq + 1,
                             [id |-> userSeq + 1, email |-> reqs[r].data,
                              role |-> role])
            /\ Reply(r, [reqs[r] EXCEPT !.id = userSeq + 1], 201, "")

SignupLoad(r) == AccountLoad(r, "signup")

SignupWrite(r) ==
    AccountWrite(r, "signup", signupRole(IF reqs[r].ref = 1 THEN "admin" ELSE ""))

CreateAdminLoad(r) == AccountLoad(r, "createAdmin")

CreateAdminWrite(r) == AccountWrite(r, "createAdmin", "admin")

\* a signup request arrives at its handler
SignupRequest(r) ==
    /\ UNCHANGED apart
    /\ Free(r)
    /\ Goto(r, [Idle EXCEPT !.route = "signup", !.pc = "handler"])
    /\ UNCHANGED <<db, client>>

CreateAdmin(r) ==
    /\ UNCHANGED apart
    /\ AtHandler(r, "createAdmin")
    /\ UNCHANGED <<posts, comments, postSeq, commentSeq, client>>
    /\ \E email \in {"bad"} \cup Emails :
         CreateAccount(r, reqs[r], email, "admin")

\* authHandlers.login: the token is signed for the stored row and the client
\* keeps it
LoginAs(r, q) ==
    \E email \in Emails, passwordOk \in BOOLEAN :
        LET user == findUserByEmail(email)
        IN IF user = NoUser \/ ~passwordOk
           THEN Reply(r, q, 401, "Invalid credentials") /\ UNCHANGED <<held, heldFor>>
           ELSE /\ held' = jwtSign(user, JwtSecret, now, ExpiresIn)
                /\ heldFor' = user
                /\ Reply(r, [q EXCEPT !.id = user.id], 200, "")

Login(r) ==
    /\ UNCHANGED apart
    /\ Free(r)
    /\ UNCHANGED <<db, now>>
    /\ LoginAs(r, [Idle EXCEPT !.route = "login"])

\* authHandlers.login behind authLimiter
LoginLimited(r) ==
    /\ UNCHANGED apart
    /\ AtHandler(r, "login")
    /\ UNCHANGED <<db, now>>
    /\ LoginAs(r, reqs[r])

\* routes.ts: the routes that pass authLimiter
AuthRoutes == {"signup", "login", "createAdmin"}

\* authLimiter = rateLimit({ ...rateLimitConfig, max: 5, windowMs: 15 min }),
\* windowMs in minutes
authLimiterOptions == [windowMs |-> 15, max |-> 5]

\* a signup or login request arrives: authLimiter is the first of its chain
AuthRequest(r) ==
    /\ UNCHANGED apart
    /\ Free(r)
    /\ \E route \in {"signup", "login"} :
         Goto(r, [Idle EXCEPT !.route = route, !.pc = "authLimiter"])
    /\ UNCHANGED <<db, client>>

\* a faulty authLimiter, to compare with: admin creation is handed on
\* without being counted
AuthLimiterAdminUncounted(r) ==
    /\ reqs[r].pc = "authLimiter"
    /\ authHits < MaxHits
    /\ UNCHANGED <<db, client, postLimiter, aside>>
    /\ IF reqs[r].route = "createAdmin"
       THEN /\ Goto(r, [reqs[r] EXCEPT !.pc = "handler"])
            /\ authHits' = authHits
            /\ authAdmitted' = authAdmitted + 1
       ELSE /\ authHits' = authHits + 1
            /\ IF rateLimit(authLimiterOptions, authHits + 1)
               THEN /\ Reply(r, reqs[r], 429, "Too many requests")
                    /\ authAdmitted' = authAdmitted
               ELSE /\ Goto(r, [reqs[r] EXCEPT !.pc = "handler"])
                    /\ authAdmitted' = authAdmitted + 1

\* authLimiter, one instance for the three auth routes: the count is read
\* and raised in one step, a refused request is answered 429, another is
\* handed to its handler
AuthLimiter(r) ==
    /\ reqs[r].pc = "authLimiter"
    /\ authHits < MaxHits
    /\ authHits' = authHits + 1
    /\ UNCHANGED <<db, client, postLimiter, aside>>
    /\ IF rateLimit(authLimiterOptions, authHits + 1)
       THEN /\ Reply(r, reqs[r], 429, "Too many requests")
            /\ authAdmitted' = authAdmitted
       ELSE /\ Goto(r, [reqs[r] EXCEPT !.pc = "handler"])
            /\ authAdmitted' = authAdmitted + 1

\* authLimiter's windowMs has passed
AuthWindowReset ==
    /\ authHits > 0
    /\ authHits' = 0
    /\ authAdmitted' = 0
    /\ UNCHANGED <<db, client, reqs, postLimiter, aside>>

\* testHelpers.generateToken(user) for a stored row; the client keeps the token
GenerateToken ==
    /\ UNCHANGED apart
    /\ \E id \in DOMAIN users :
         /\ held' = generateToken(users[id], now)
         /\ heldFor' = users[id]
    /\ UNCHANGED <<db, now, reqs>>

\* swaggerUi.setup(adminDocs) behind authenticate and requireAdmin
AdminDocs(r) ==
    /\ UNCHANGED apart
    /\ AtHandler(r, "adminDocs")
    /\ Reply(r, reqs[r], 200, "")
    /\ UNCHANGED <<db, client>>

\* time passes
Tick ==
    /\ UNCHANGED apart
    /\ now < MaxTime
    /\ now' = now + 1
    /\ UNCHANGED <<db, held, heldFor, reqs>>

\* --------------------------------------------------------- specifications
\* the routes of routes.ts, one request at a time, each with a fresh token,
\* over a store that does not fail
Next ==
    \E r \in {1} :
        \/ Authenticate(r, ProtectedRoutes)
        \/ Public(r, PublicRoutes)
        \/ NotFoundHandler(r)
        \/ RequireAdmin(r)
        \/ PostCreate(r)
        \/ PostUpdateLoad(r)
        \/ PostUpdateWrite(r)
        \/ PostDeleteLoad(r)
        \/ PostDeleteMany(r)
        \/ PostDeleteCommit(r)
        \/ PostGetOne(r)
        \/ PostGetMany(r)
        \/ CommentCreateLoad(r)
        \/ CommentCreateWrite(r)
        \/ CommentUpdateLoad(r)
        \/ CommentUpdateWrite(r)
        \/ CommentDeleteLoad(r)
        \/ CommentDeleteWrite(r)
        \/ CommentGetByPost(r)
        \/ Signup(r)
        \/ CreateAdmin(r)
        \/ AdminDocs(r)

Spec == Init /\ [][Next]_vars

\* two accounts, an admin and a user, as createAdmin and signup leave them,
\* and a post of the first as postHandlers.create leaves it
InitUsers ==
    /\ users = (1 :> [id |-> 1, email |-> "a@x", role |-> "admin"])
               @@ (2 :> [id |-> 2, email |-> "b@x", role |-> "user"])
    /\ posts = (1 :> [id |-> 1, userId |-> 1, title |-> "old"])
    /\ comments = <<>>
    /\ userSeq = 2
    /\ postSeq = 1
    /\ commentSeq = 0
    /\ now = 0
    /\ held = NoToken
    /\ heldFor = NoUser
    /\ reqs = [r \in Slots |-> Idle]
    /\ hits = 0
    /\ admitted = 0
    /\ authHits = 0
    /\ authAdmitted = 0
    /\ listing = NoListing
    /\ profiles = NoProfiles
    /\ proc = Running

\* tokens kept over time while the admin routes and the user-management
\* handlers change and delete the accounts they were issued for
NextUsers ==
    \/ \E r \in {1} :
        \/ Authenticate(r, UserRoutes \cup {"adminDocs", "updatePost"})
        \/ RequireAdmin(r)
        \/ PostUpdateLoad(r)
        \/ PostUpdateWrite(r)
        \/ UpdateUserRole(r)
        \/ DeleteUser(r)
        \/ AdminDocs(r)
        \/ Login(r)
    \/ GenerateToken
    \/ Tick

SpecUsers == InitUsers /\ [][NextUsers]_vars

\* a post, its comments and its deletion with two requests in flight, over
\* a store that can fail in the middle of a transaction
RaceRoutes == {"updatePost", "deletePost", "createComment", "deleteComment"}

NextRace ==
    \E r \in Slots :
        \/ Authenticate(r, RaceRoutes)
        \/ PostUpdateLoad(r)
        \/ PostUpdateWrite(r)
        \/ PostDeleteLoad(r)
        \/ PostDeleteMany(r)
        \/ PostDeleteCommit(r)
        \/ PostDeleteAbort(r)
        \/ CommentCreateLoad(r)
        \/ CommentCreateWrite(r)
        \/ CommentDeleteLoad(r)
        \/ CommentDeleteWrite(r)

SpecRace == InitUsers /\ [][NextRace]_vars

\* two accounts as two signups leave them, a post of the first and a comment
\* of each on it, as the test helpers createPost and createComment leave them
InitDenials ==
    /\ users = (1 :> [id |-> 1, email |-> "a@x", role |-> "user"])
               @@ (2 :> [id |-> 2, email |-> "b@x", role |-> "user"])
    /\ posts = (1 :> [id |-> 1, userId |-> 1, title |-> "old"])
    /\ comments = (1 :> [id |-> 1, userId |-> 2, postId |-> 1, content |-> "old"])
                  @@ (2 :> [id |-> 2, userId |-> 1, postId |-> 1, content |-> "old"])
    /\ userSeq = 2
    /\ postSeq = 1
    /\ commentSeq = 2
    /\ now = 0
    /\ held = NoToken
    /\ heldFor = NoUser
    /\ reqs = [r \in Slots |-> Idle]
    /\ hits = 0
    /\ admitted = 0
    /\ authHits = 0
    /\ authAdmitted = 0
    /\ listing = NoListing
    /\ profiles = NoProfiles
    /\ proc = Running

\* updates of these rows by both accounts, two requests in flight, so that
\* the responses of two requests stand side by side
NextDenials ==
    \E r \in Slots :
        \/ Authenticate(r, {"updatePost", "updateComment"})
        \/ PostUpdateLoad(r)
        \/ PostUpdateWrite(r)
        \/ CommentUpdateLoad(r)
        \/ CommentUpdateWrite(r)

SpecDenials == InitDenials /\ [][NextDenials]_vars

\* one account as a signup leaves it and no post
InitLimits ==
    /\ users = (1 :> [id |-> 1, email |-> "a@x", role |-> "user"])
    /\ posts = <<>>
    /\ comments = <<>>
    /\ userSeq = 1
    /\ postSeq = 0
    /\ commentSeq = 0
    /\ now = 0
    /\ held = NoToken
    /\ heldFor = NoUser
    /\ reqs = [r \in Slots |-> Idle]
    /\ hits = 0
    /\ admitted = 0
    /\ authHits = 0
    /\ authAdmitted = 0
    /\ listing = NoListing
    /\ profiles = NoProfiles
    /\ proc = Running

\* post creation by one client through createPostLimiter, two requests in
\* flight, over the windows of the limiter
NextLimits ==
    \/ \E r \in Slots :
        \/ AuthenticateVia(r, {"createPost"}, {"createPost"})
        \/ CreatePostLimiter(r)
        \/ PostCreate(r)
    \/ WindowReset

SpecLimits == InitLimits /\ [][NextLimits]_vars

\* an admin, a user and a post of the user
InitRefs ==
    /\ users = (1 :> [id |-> 1, email |-> "a@x", role |-> "admin"])
               @@ (2 :> [id |-> 2, email |-> "b@x", role |-> "user"])
    /\ posts = (1 :> [id |-> 1, userId |-> 2, title |-> "old"])
    /\ comments = <<>>
    /\ userSeq = 2
    /\ postSeq = 1
    /\ commentSeq = 0
    /\ now = 0
    /\ held = NoToken
    /\ heldFor = NoUser
    /\ reqs = [r \in Slots |-> Idle]
    /\ hits = 0
    /\ admitted = 0
    /\ authHits = 0
    /\ authAdmitted = 0
    /\ listing = NoListing
    /\ profiles = NoProfiles
    /\ proc = Running

\* comments written while the post and its owner are deleted, two requests
\* in flight
RefRoutes == {"createComment", "deletePost", "deleteUser"}

NextRefs ==
    \E r \in Slots :
        \/ Authenticate(r, RefRoutes)
        \/ RequireAdmin(r)
        \/ CommentCreateLoad(r)
        \/ CommentCreateWrite(r)
        \/ PostDeleteLoad(r)
        \/ PostDeleteMany(r)
        \/ PostDeleteCommit(r)
        \/ DeleteUser(r)

SpecRefs == InitRefs /\ [][NextRefs]_vars

\* two admins, as two admin creations leave them
InitAdmins ==
    /\ users = (1 :> [id |-> 1, email |-> "a@x", role |-> "admin"])
               @@ (2 :> [id |-> 2, email |-> "b@x", role |-> "admin"])
    /\ posts = <<>>
    /\ comments = <<>>
    /\ userSeq = 2
    /\ postSeq = 0
    /\ commentSeq = 0
    /\ now = 0
    /\ held = NoToken
    /\ heldFor = NoUser
    /\ reqs = [r \in Slots |-> Idle]
    /\ hits = 0
    /\ admitted = 0
    /\ authHits = 0
    /\ authAdmitted = 0
    /\ listing = NoListing
    /\ profiles = NoProfiles
    /\ proc = Running

\* the user-management handlers behind authenticate and requireAdmin, two
\* requests in flight
NextAdmins ==
    \E r \in Slots :
        \/ Authenticate(r, UserRoutes)
        \/ RequireAdmin(r)
        \/ UpdateUserRole(r)
        \/ DeleteUser(r)

SpecAdmins == InitAdmins /\ [][NextAdmins]_vars

\* accounts created by signups and admin creations in flight together
NextEmails ==
    \E r \in Slots :
        \/ SignupRequest(r)
        \/ Authenticate(r, {"createAdmin"})
        \/ RequireAdmin(r)
        \/ SignupLoad(r)
        \/ SignupWrite(r)
        \/ CreateAdminLoad(r)
        \/ CreateAdminWrite(r)

SpecEmails == Init /\ [][NextEmails]_vars

\* a user and the second of two posts, the first deleted again
InitComments ==
    /\ users = (1 :> [id |-> 1, email |-> "a@x", role |-> "user"])
    /\ posts = (2 :> [id |-> 2, userId |-> 1, title |-> "old"])
    /\ comments = <<>>
    /\ userSeq = 1
    /\ postSeq = 2
    /\ commentSeq = 0
    /\ now = 0
    /\ held = NoToken
    /\ heldFor = NoUser
    /\ reqs = [r \in Slots |-> Idle]
    /\ hits = 0
    /\ admitted = 0
    /\ authHits = 0
    /\ authAdmitted = 0
    /\ listing = NoListing
    /\ profiles = NoProfiles
    /\ proc = Running

\* POST /posts/:postId/comments with a path and a body that may name
\* different posts
NextComments ==
    \E r \in Slots :
        \/ Authenticate(r, {"createComment"})
        \/ CommentCreateLoad(r)
        \/ CommentCreateWrite(r)

SpecComments == InitComments /\ [][NextComments]_vars

\* --------------------------------------------------------- updateProfile
\* a faulty schema, to compare with: the body's keys are passed on as they are
updateProfileSchemaPassthrough(body) ==
    [ok |-> body # "bad",
     firstName |-> IF body \in {"name", "extra"} THEN "new" ELSE "",
     role |-> IF body = "extra" THEN "admin" ELSE "",
     email |-> IF body = "extra" THEN "c@x" ELSE "",
     currentPassword |-> IF body = "pwOld" THEN "old"
                         ELSE IF body = "pwNew" THEN "new" ELSE "",
     newPassword |-> IF body = "pwOld" THEN "new"
                     ELSE IF body = "pwNew" THEN "old" ELSE ""]

\* updateProfileSchema.parse(req.body) for the bodies a client tries: "name"
\* is { firstName }, "extra" adds the keys role and email, which the schema
\* does not know and drops, "pwOld" and "pwNew" are { currentPassword,
\* newPassword } with the one or the other password as the current one,
\* "bad" fails the schema ("": no such key)
updateProfileSchema(body) ==
    [ok |-> body # "bad",
     firstName |-> IF body \in {"name", "extra"} THEN "new" ELSE "",
     role |-> "",
     email |-> "",
     currentPassword |-> IF body = "pwOld" THEN "old"
                         ELSE IF body = "pwNew" THEN "new" ELSE "",
     newPassword |-> IF body = "pwOld" THEN "new"
                     ELSE IF body = "pwNew" THEN "old" ELSE ""]

\* prisma.user.update({ where: { id: userId }, data }): the row of userId
\* with the keys of data written, and the response
ProfileUpdate(r, userId, updates) ==
    IF userId \notin DOMAIN users
    THEN /\ Throw(r, reqs[r], PrismaError("Record to update not found"))
         /\ UNCHANGED <<users, profiles>>
    ELSE /\ users' = [users EXCEPT
                         ![userId].role = IF updates.role = "" THEN @
                                          ELSE updates.role,
                         ![userId].email = IF updates.email = "" THEN @
                                           ELSE updates.email]
         /\ profiles' = [profiles EXCEPT
                            ![userId].firstName =
                                IF updates.firstName = "" THEN @
                                ELSE updates.firstName,
                            ![userId].password =
                                IF updates.newPassword = "" THEN @
                                ELSE updates.newPassword]
         /\ Reply(r, reqs[r], 200, "")

\* userHandlers.updateProfile up to its first write: the parse; with a
\* newPassword the read of the stored password and the compare, the update
\* following in a later call; without one the update at once
UpdateProfileLoad(r) ==
    /\ UNCHANGED <<limiter, listing, proc>>
    /\ AtHandler(r, "updateProfile")
    /\ UNCHANGED <<posts, comments, userSeq, postSeq, commentSeq, client>>
    /\ LET updates == updateProfileSchema(reqs[r].data)
           userId == reqs[r].user.id
       IN IF ~updates.ok
          THEN Reply(r, reqs[r], 400, "ZodError") /\ UNCHANGED <<users, profiles>>
          ELSE IF updates.newPassword = ""
               THEN ProfileUpdate(r, userId, updates)
          ELSE IF \/ userId \notin DOMAIN users
                  \/ profiles[userId].password # updates.currentPassword
               THEN /\ Throw(r, reqs[r],
                             CustomError(400, "Current password is incorrect"))
                    /\ UNCHANGED <<users, profiles>>
          ELSE /\ Goto(r, [reqs[r] EXCEPT !.pc = "write"])
               /\ UNCHANGED <<users, profiles>>

\* the update of a request that set a new password
UpdateProfileWrite(r) ==
    /\ UNCHANGED <<limiter, listing, proc>>
    /\ AtWrite(r, "updateProfile")
    /\ UNCHANGED <<posts, comments, userSeq, postSeq, commentSeq, client>>
    /\ ProfileUpdate(r, reqs[r].user.id, updateProfileSchema(reqs[r].data))

\* two users as two signups leave them, with their names and passwords
InitProfiles ==
    /\ users = (1 :> [id |-> 1, email |-> "a@x", role |-> "user"])
               @@ (2 :> [id |-> 2, email |-> "b@x", role |-> "user"])
    /\ profiles = [u \in {1, 2} |-> [firstName |-> "old", password |-> "old"]]
    /\ posts = <<>>
    /\ comments = <<>>
    /\ userSeq = 2
    /\ postSeq = 0
    /\ commentSeq = 0
    /\ now = 0
    /\ held = NoToken
    /\ heldFor = NoUser
    /\ reqs = [r \in Slots |-> Idle]
    /\ hits = 0
    /\ admitted = 0
    /\ authHits = 0
    /\ authAdmitted = 0
    /\ listing = NoListing
    /\ proc = Running

\* profile updates of both users, two requests in flight
NextProfiles ==
    \E r \in Slots :
        \/ Authenticate(r, ProfileRoutes)
        \/ UpdateProfileLoad(r)
        \/ UpdateProfileWrite(r)

SpecProfiles == InitProfiles /\ [][NextProfiles]_vars

\* ------------------------------------------------------------ the process
\* the force timeout of shutdown, setTimeout(..., 5000), in seconds
ForceTimeout == 5

\* the process after its modules are loaded: app.ts, imported first, has
\* registered its SIGTERM listener; startServer waits for prisma.$connect.
\* exit is the exit code (-1: alive), timer the seconds since shutdown set
\* its timeout (-1: not set)
Loaded == [pc |-> "connecting", sigterm |-> <<"app">>, sigint |-> <<>>,
           signal |-> "", closing |-> FALSE, again |-> FALSE,
           closed |-> FALSE,
           disconnected |-> FALSE, conns |-> 0, timer |-> -1, exit |-> -1]

Alive == proc.exit = -1

\* process.exit(code)
Exit(p, code) == [p EXCEPT !.pc = "exited", !.exit = code]

\* shutdown (server.ts): server.close is called and the force timeout set;
\* a server.close on a server that is closing already registers a callback
\* that is handed an error when the server has closed
shutdown(p) ==
    IF p.closing THEN [p EXCEPT !.again = TRUE]
    ELSE [p EXCEPT !.closing = TRUE, !.timer = 0]

\* the listeners of a signal run in the order they were registered, until
\* one of them exits the process; the listener of app.ts is
\* process.exit(0); a signal without listener ends the process
RECURSIVE Emit(_, _)
Emit(p, listeners) ==
    IF p.exit # -1 \/ listeners = <<>> THEN p
    ELSE IF Head(listeners) = "app" THEN Exit(p, 0)
    ELSE Emit(shutdown(p), Tail(listeners))

Signal(name, listeners) ==
    /\ Alive
    /\ proc' = IF listeners = <<>>
               THEN Exit([proc EXCEPT !.signal = name], 130)
               ELSE Emit([proc EXCEPT !.signal = name], listeners)
    /\ UNCHANGED <<db, client, reqs, limiter, listing, profiles>>

Sigterm == Signal("SIGTERM", proc.sigterm)

Sigint == Signal("SIGINT", proc.sigint)

\* startServer: prisma.$connect resolves, the server listens and shutdown is
\* registered for SIGTERM and SIGINT
StartServer ==
    /\ Alive
    /\ proc.pc = "connecting"
    /\ proc' = [proc EXCEPT !.pc = "serving",
                            !.sigterm = Append(@, "shutdown"),
                            !.sigint = Append(@, "shutdown")]
    /\ UNCHANGED <<db, client, reqs, limiter, listing, profiles>>

\* startServer: prisma.$connect rejects
StartServerFailed ==
    /\ Alive
    /\ proc.pc = "connecting"
    /\ proc' = Exit(proc, 1)
    /\ UNCHANGED <<db, client, reqs, limiter, listing, profiles>>

\* a connection is opened while the server listens, or one ends
Connection ==
    /\ Alive
    /\ proc.pc = "serving"
    /\ \/ ~proc.closing /\ proc.conns < MaxConns
          /\ proc' = [proc EXCEPT !.conns = @ + 1]
       \/ proc.conns > 0 /\ proc' = [proc EXCEPT !.conns = @ - 1]
    /\ UNCHANGED <<db, client, reqs, limiter, listing, profiles>>

\* the callbacks of server.close once no connection is left: on an error
\* process.exit(1), otherwise prisma.$disconnect is awaited
ServerClosed ==
    /\ Alive
    /\ proc.pc = "serving" /\ proc.closing /\ proc.conns = 0
    /\ \/ ~proc.again
          /\ proc' = [proc EXCEPT !.pc = "disconnecting", !.closed = TRUE]
       \/ proc' = Exit(proc, 1)
    /\ UNCHANGED <<db, client, reqs, limiter, listing, profiles>>

\* prisma.$disconnect resolves: process.exit(0); it rejects: process.exit(1)
Disconnected ==
    /\ Alive
    /\ proc.pc = "disconnecting"
    /\ \/ proc' = Exit([proc EXCEPT !.disconnected = TRUE], 0)
       \/ proc' = Exit(proc, 1)
    /\ UNCHANGED <<db, client, reqs, limiter, listing, profiles>>

\* a second passes on the force timeout; at 5 seconds process.exit(1)
ForceTimer ==
    /\ Alive
    /\ proc.timer >= 0
    /\ proc' = IF proc.timer + 1 >= ForceTimeout
               THEN Exit([proc EXCEPT !.timer = ForceTimeout], 1)
               ELSE [proc EXCEPT !.timer = @ + 1]
    /\ UNCHANGED <<db, client, reqs, limiter, listing, profiles>>

InitShutdown ==
    /\ users = (1 :> [id |-> 1, email |-> "a@x", role |-> "admin"])
    /\ posts = <<>>
    /\ comments = <<>>
    /\ userSeq = 1
    /\ postSeq = 0
    /\ commentSeq = 0
    /\ now = 0
    /\ held = NoToken
    /\ heldFor = NoUser
    /\ reqs = [r \in Slots |-> Idle]
    /\ hits = 0
    /\ admitted = 0
    /\ authHits = 0
    /\ authAdmitted = 0
    /\ listing = NoListing
    /\ profiles = NoProfiles
    /\ proc = Loaded

NextShutdown ==
    \/ StartServer
    \/ StartServerFailed
    \/ Connection
    \/ Sigterm
    \/ Sigint
    \/ ServerClosed
    \/ Disconnected
    \/ ForceTimer

SpecShutdown == InitShutdown /\ [][NextShutdown]_vars

\* ---------------------------------------------------- the listing of posts
\* the characters a query value is written with; the digits among them
QueryChars == {"0", "1", "2", "-"}

IsDigit(c) == c \in {"0", "1", "2"}

DigitValue(c) == IF c = "1" THEN 1 ELSE IF c = "2" THEN 2 ELSE 0

\* /^\d+$/ on a string, here the sequence of its characters
regexDigits(text) == Len(text) >= 1 /\ \A i \in DOMAIN text : IsDigit(text[i])

\* parseInt on a string of digits
RECURSIVE parseInt(_)
parseInt(text) ==
    IF text = <<>> THEN 0
    ELSE 10 * parseInt(SubSeq(text, 1, Len(text) - 1)) + DigitValue(text[Len(text)])

\* a value of the query string: absent, or its text
QueryTexts == UNION {[1..n -> QueryChars] : n \in 0..MaxDigits}

QueryValues == {[present |-> FALSE, text |-> <<>>]}
               \cup {[present |-> TRUE, text |-> t] : t \in QueryTexts}

\* the userId of a query: 0 for none, -1 for one that is no uuid
QueryUserIds == {-1, 0} \cup UserIds

\* querySchema.parse(req.query): page and limit are strings of digits with
\* the defaults "1" and "10", userId an optional uuid
querySchema(query) ==
    LET page == IF query.page.present THEN query.page.text ELSE <<"1">>
        limit == IF query.limit.present THEN query.limit.text ELSE <<"1", "0">>
    IN [ok |-> regexDigits(page) /\ regexDigits(limit) /\ query.userId # -1,
        page |-> page, limit |-> limit, userId |-> query.userId]

\* Math.ceil(total / limit): Infinity or NaN, neither of them finite, when
\* limit is 0
MathCeil(total, limit) ==
    IF limit = 0 THEN [finite |-> FALSE, value |-> 0]
    ELSE [finite |-> TRUE, value |-> (total + limit - 1) \div limit]

\* orderBy: { createdAt: "desc" }: the ids of a set of rows, latest first
RECURSIVE Descending(_)
Descending(ids) ==
    IF ids = {} THEN <<>>
    ELSE LET m == CHOOSE i \in ids : \A j \in ids : j <= i
         IN <<m>> \o Descending(ids \ {m})

\* where: whereClause
Matching(rows, userId) ==
    {p \in DOMAIN rows : userId = 0 \/ rows[p].userId = userId}

\* postHandlers.getMany on the stored rows: the schema, skip, the two reads
\* (findMany refuses a negative skip) and the response
getMany(query, rows) ==
    LET q == querySchema(query)
        page == parseInt(q.page)
        limit == parseInt(q.limit)
        skip == (page - 1) * limit
        found == Descending(Matching(rows, q.userId))
        total == Len(found)
        upto == IF skip + limit < total THEN skip + limit ELSE total
        none == [asked |-> TRUE, query |-> query, accepted |-> q.ok,
                 page |-> 0, limit |-> 0, skip |-> 0, status |-> 400,
                 data |-> <<>>, total |-> 0,
                 pages |-> [finite |-> TRUE, value |-> 0]]
    IN IF ~q.ok THEN none
       ELSE IF skip < 0
            THEN [none EXCEPT !.page = page, !.limit = limit, !.skip = skip,
                              !.status = errorHandler(PrismaError(
                                  "Invalid value for skip argument")).status]
       ELSE [none EXCEPT !.page = page, !.limit = limit, !.skip = skip,
                         !.status = 200,
                         !.data = SubSeq(found, skip + 1, upto),
                         !.total = total,
                         !.pages = MathCeil(total, limit)]

\* a store of some posts of the two accounts, latest id last, nothing else
InitListing ==
    /\ users = (1 :> [id |-> 1, email |-> "a@x", role |-> "admin"])
               @@ (2 :> [id |-> 2, email |-> "b@x", role |-> "user"])
    /\ \E n \in 0..MaxPosts :
         /\ posts = [p \in 1..n |-> [id |-> p, userId |-> 1 + (p % 2),
                                     title |-> "old"]]
         /\ postSeq = n
    /\ comments = <<>>
    /\ userSeq = 2
    /\ commentSeq = 0
    /\ now = 0
    /\ held = NoToken
    /\ heldFor = NoUser
    /\ reqs = [r \in Slots |-> Idle]
    /\ hits = 0
    /\ admitted = 0
    /\ authHits = 0
    /\ authAdmitted = 0
    /\ listing = NoListing
    /\ profiles = NoProfiles
    /\ proc = Running

\* GET /posts with some query, once
GetMany ==
    /\ ~listing.asked
    /\ \E page \in QueryValues, limit \in QueryValues, userId \in QueryUserIds :
         listing' = getMany([page |-> page, limit |-> limit, userId |-> userId],
                            posts)
    /\ UNCHANGED <<db, client, reqs, limiter, profiles, proc>>

NextListing == GetMany

SpecListing == InitListing /\ [][NextListing]_vars

\* the auth routes of one client through authLimiter, two requests in
\* flight, over the windows of the limiter
NextAuthLimits ==
    \/ \E r \in Slots :
        \/ AuthRequest(r)
        \/ AuthenticateVia(r, {"createAdmin"}, {})
        \/ RequireAdminVia(r, {"createAdmin"})
        \/ AuthLimiter(r)
        \/ SignupLoad(r)
        \/ SignupWrite(r)
        \/ LoginLimited(r)
        \/ CreateAdminLoad(r)
        \/ CreateAdminWrite(r)
    \/ AuthWindowReset

SpecAuthLimits == Init /\ [][NextAuthLimits]_vars

\* ------------------------------------------------------------- properties
\* the update and delete routes of posts and comments
MutatingRoutes == {"updatePost", "deletePost", "updateComment", "deleteComment"}

\* every route that changes the store
WritingRoutes == MutatingRoutes \cup {"createPost", "createComment", "createAdmin"}

OnPost(q) == q.route \in {"updatePost", "deletePost"}

\* the row request q names is stored; the id of its owner
Exists(q) == IF OnPost(q) THEN q.id \in DOMAIN posts ELSE q.id \in DOMAIN comments

OwnerId(q) == IF OnPost(q) THEN posts[q.id].userId ELSE comments[q.id].userId

\* this step is a step of the request in slot r
Step(r) == reqs'[r] # reqs[r]

\* this step runs the handler of an update or delete request whose body
\* passes the handler's schema (a body that does not is answered 400 before
\* the row is looked up)
Checks(r) ==
    /\ Step(r)
    /\ reqs[r].pc = "handler"
    /\ reqs[r].route \in MutatingRoutes
    /\ reqs[r].data # "bad"

\* this step is the write of an authorized update or delete request
Writes(r) ==
    /\ Step(r)
    /\ reqs[r].pc \in {"write", "tx"}
    /\ reqs[r].route \in MutatingRoutes

\* the effect of a write step: the update is stored and answered 200, the
\* row (for a post, with its comments) is removed and answered 204; the
\* first statement of a post's deletion leads to the second
Performed(r) ==
    LET q == reqs[r] IN
    IF q.route = "updatePost"
    THEN /\ reqs'[r].status = 200
         /\ posts' = [posts EXCEPT ![q.id].title =
                           IF q.data = "none" THEN @ ELSE q.data]
         /\ comments' = comments
    ELSE IF q.route = "updateComment"
    THEN /\ reqs'[r].status = 200
         /\ comments' = [comments EXCEPT ![q.id].content = q.data]
         /\ posts' = posts
    ELSE IF q.route = "deleteComment"
    THEN /\ reqs'[r].status = 204
         /\ q.id \notin DOMAIN comments'
         /\ posts' = posts
    ELSE IF q.pc = "write"
    THEN reqs'[r].pc = "tx" /\ posts' = posts /\ comments' = comments
    ELSE /\ reqs'[r].status = 204
         /\ q.id \notin DOMAIN posts'
         /\ \A c \in DOMAIN comments' : comments'[c].postId # q.id

\* C1: an authenticated user who is neither the owner of an existing post or
\* comment nor an admin is answered 403 by the update and delete handlers,
\* and the posts and comments stay exactly as they were
C1_ForbiddenToOthers ==
    [][\A r \in Slots :
          (/\ Checks(r)
           /\ Exists(reqs[r])
           /\ reqs[r].user.id # OwnerId(reqs[r])
           /\ reqs[r].user.role # "admin")
          => /\ reqs'[r].pc = "done"
             /\ reqs'[r].status = 403
             /\ posts' = posts
             /\ comments' = comments]_vars

C1_Witness ==
    \E r \in Slots :
        /\ reqs[r].pc = "done"
        /\ reqs[r].route \in MutatingRoutes
        /\ reqs[r].status = 403
        /\ Exists(reqs[r])
        /\ reqs[r].user.role = "user"
        /\ reqs[r].user.id # OwnerId(reqs[r])

\* C2: an admin passes the authorization check of the update and delete
\* handlers for every existing post or comment, whoever owns it, and the
\* mutation is performed
C2_AdminOverride ==
    [][\A r \in Slots :
          /\ (Checks(r) /\ Exists(reqs[r]) /\ reqs[r].user.role = "admin")
             => (reqs'[r].pc = "write" /\ posts' = posts /\ comments' = comments)
          /\ (Writes(r) /\ reqs[r].user.role = "admin") => Performed(r)]_vars

C2_Witness ==
    \E r \in Slots :
        /\ reqs[r].pc = "done"
        /\ reqs[r].route = "updatePost"
        /\ reqs[r].status = 200
        /\ reqs[r].user.role = "admin"
        /\ reqs[r].id \in DOMAIN posts
        /\ posts[reqs[r].id].userId # reqs[r].user.id
        /\ posts[reqs[r].id].title = "new"

\* C3: an owner with role user passes the authorization check for the
\* owner's own post or comment and the update or delete takes effect; a
\* deleted post's id is never stored again, and getOne answers 404 for it
C3_OwnerAllowed ==
    [][\A r \in Slots :
          /\ (/\ Checks(r)
              /\ Exists(reqs[r])
              /\ reqs[r].user.role = "user"
              /\ reqs[r].user.id = OwnerId(reqs[r]))
             => (reqs'[r].pc = "write" /\ posts' = posts /\ comments' = comments)
          /\ (Writes(r) /\ reqs[r].user.role = "user") => Performed(r)
          /\ DOMAIN posts' \ DOMAIN posts \subseteq {postSeq + 1}
          /\ postSeq' >= postSeq
          /\ (/\ Step(r)
              /\ reqs[r].pc = "handler"
              /\ reqs[r].route = "getOne"
              /\ reqs[r].id \notin DOMAIN posts)
             => reqs'[r].status = 404]_vars

C3_Witness ==
    \E r \in Slots :
        /\ reqs[r].pc = "done"
        /\ reqs[r].route = "deletePost"
        /\ reqs[r].status = 204
        /\ reqs[r].user.role = "user"
        /\ reqs[r].id <= postSeq
        /\ reqs[r].id \notin DOMAIN posts

\* C4: a request without a credential reaches the handlers of the listing
\* and detail routes and is answered 200 there (for a query the handler
\* accepts and a post that exists), never 401 or 403; on every route that
\* changes the store it is answered 401 "Authentication required" by
\* authenticate and nothing is changed
C4_Anonymous ==
    [][\A r \in Slots :
          /\ (Step(r) /\ ~reqs'[r].cred /\ reqs'[r].route \in WritingRoutes)
             => /\ reqs'[r].pc = "done"
                /\ reqs'[r].status = 401
                /\ reqs'[r].error = "Authentication required"
                /\ UNCHANGED db
          /\ (Step(r) /\ Free(r) /\ reqs'[r].route \in PublicRoutes)
             => reqs'[r].pc = "handler"
          /\ (/\ Step(r)
              /\ reqs[r].pc = "handler"
              /\ reqs[r].route \in PublicRoutes
              /\ ~reqs[r].cred)
             => /\ reqs'[r].pc = "done"
                /\ reqs'[r].status \notin {401, 403}
                /\ (/\ reqs[r].data = "ok"
                    /\ (reqs[r].route = "getMany" \/ reqs[r].id \in DOMAIN posts))
                   => reqs'[r].status = 200
                /\ UNCHANGED db]_vars

C4_Witness ==
    \E r \in Slots :
        /\ reqs[r].pc = "done"
        /\ reqs[r].route \in {"getOne", "getByPost"}
        /\ ~reqs[r].cred
        /\ reqs[r].status = 200
        /\ reqs[r].id \in DOMAIN posts

\* C5: update or delete of a post or comment id that is not stored is
\* answered 404 and never 403, whoever asks and whatever the role
C5_NotFoundFirst ==
    [][\A r \in Slots :
          /\ (Checks(r) /\ ~Exists(reqs[r]))
             => /\ reqs'[r].pc = "done"
                /\ reqs'[r].status = 404
                /\ UNCHANGED db
          /\ (/\ Step(r)
              /\ reqs[r].pc = "handler"
              /\ reqs[r].route \in MutatingRoutes
              /\ ~Exists(reqs[r]))
             => reqs'[r].status # 403]_vars

C5_Witness ==
    \E r \in Slots :
        /\ reqs[r].pc = "done"
        /\ reqs[r].route \in MutatingRoutes
        /\ reqs[r].status = 404
        /\ reqs[r].user.role = "user"
        /\ ~Exists(reqs[r])

\* C6: a post's deletion is all-or-nothing with its cascade: every step of
\* a deletePost request, the failing ones included, leaves the posts and
\* comments as they were or removes the post together with exactly the
\* comments on it, and in every state each comment's post is stored
C6_CascadeAtomic ==
    [][/\ \A c \in DOMAIN comments' : comments'[c].postId \in DOMAIN posts'
       /\ \A r \in Slots :
             (Step(r) /\ reqs[r].route = "deletePost")
             => \/ posts' = posts /\ comments' = comments
                \/ /\ reqs[r].id \in DOMAIN posts
                   /\ DOMAIN posts' = DOMAIN posts \ {reqs[r].id}
                   /\ \A p \in DOMAIN posts' : posts'[p] = posts[p]
                   /\ DOMAIN comments' =
                         {c \in DOMAIN comments : comments[c].postId # reqs[r].id}
                   /\ \A c \in DOMAIN comments' : comments'[c] = comments[c]]_vars

C6_Witness ==
    \E r \in Slots :
        /\ reqs[r].pc = "done"
        /\ reqs[r].route = "deletePost"
        /\ reqs[r].status = 500
        /\ reqs[r].error = "Transaction failed"
        /\ reqs[r].id \in DOMAIN posts
        /\ \E c \in DOMAIN comments : comments[c].postId = reqs[r].id

\* C7: a role update or an account deletion whose target is the caller's own
\* id is rejected (answered with no success, or not answered at all) and the
\* accounts stay as they were, also for an admin
C7_SelfProtection ==
    [][\A r \in Slots :
          (/\ Step(r)
           /\ reqs[r].pc = "handler"
           /\ reqs[r].route \in UserRoutes
           /\ reqs[r].id = reqs[r].user.id)
          => /\ reqs'[r].pc = "done"
             /\ reqs'[r].status \notin {200, 204}
             /\ users' = users]_vars

C7_Witness ==
    \E r \in Slots :
        /\ reqs[r].pc = "done"
        /\ reqs[r].route \in UserRoutes
        /\ reqs[r].user.role = "admin"
        /\ reqs[r].id = reqs[r].user.id
        /\ reqs[r].status = 500
        /\ users[reqs[r].id] = reqs[r].user

\* C8: authenticate attaches the stored row of the token's user, so the role
\* it carries is the stored one whatever the token says; requireAdmin and
\* the admin override of the handlers then decide by the stored role
C8_StoredRole ==
    [][\A r \in Slots :
          /\ (Step(r) /\ Free(r) /\ reqs'[r].pc \in {"requireAdmin", "handler"})
             => reqs'[r].user = users[reqs'[r].tokUid]
          /\ (Step(r) /\ reqs[r].pc = "requireAdmin")
             => IF findUser(reqs[r].tokUid).role = "admin"
                THEN reqs'[r].pc = "handler"
                ELSE reqs'[r].pc = "done" /\ reqs'[r].status = 403
          /\ (/\ Checks(r)
              /\ Exists(reqs[r])
              /\ OwnerId(reqs[r]) # reqs[r].tokUid)
             => IF findUser(reqs[r].tokUid).role = "admin"
                THEN reqs'[r].pc = "write"
                ELSE reqs'[r].pc = "done" /\ reqs'[r].status = 403]_vars

C8_Witness ==
    \E r \in Slots :
        /\ reqs[r].pc = "done"
        /\ reqs[r].route \in {"adminDocs", "updatePost"}
        /\ reqs[r].tokRole = "admin"
        /\ reqs[r].user.role = "user"
        /\ reqs[r].status = 403

\* C9: a request to a route behind authenticate whose token verifies but
\* names no stored account is answered 401 "Invalid token" by authenticate;
\* the middleware and handler behind it only ever see a stored account
C9_UnknownAccount ==
    [][\A r \in Slots :
          /\ (/\ Step(r)
              /\ Free(r)
              /\ HasStep(reqs'[r].route, "authenticate")
              /\ reqs'[r].tokUid # 0
              /\ reqs'[r].tokUid \notin DOMAIN users)
             => /\ reqs'[r].pc = "done"
                /\ reqs'[r].status = 401
                /\ reqs'[r].error = "Invalid token"
                /\ UNCHANGED db
          /\ (/\ HasStep(reqs'[r].route, "authenticate")
              /\ reqs'[r].pc \in {"requireAdmin", "handler", "write", "tx"})
             => reqs'[r].user # NoUser]_vars

C9_Witness ==
    \E r \in Slots :
        /\ reqs[r].pc = "done"
        /\ HasStep(reqs[r].route, "authenticate")
        /\ reqs[r].tokUid # 0
        /\ reqs[r].tokUid \notin DOMAIN users
        /\ reqs[r].status = 401
        /\ reqs[r].error = "Invalid token"

\* C10: verifying a token before its expiry gives back the id, the email and
\* the role of the identity it was issued for: for the token the client
\* keeps, and for a token issued now to any stored account, at every time
\* before its expiry
C10_RoundTrip ==
    /\ (held # NoToken /\ now < held.claims.exp)
       => LET v == jwtVerify(held, JwtSecret, now)
          IN /\ v.err = ""
             /\ v.decoded.userId = heldFor.id
             /\ v.decoded.email = heldFor.email
             /\ v.decoded.role = heldFor.role
    /\ \A i \in DOMAIN users : \A t \in now .. (now + ExpiresIn - 1) :
          LET v == jwtVerify(generateToken(users[i], now), JwtSecret, t)
          IN /\ v.err = ""
             /\ v.decoded.userId = users[i].id
             /\ v.decoded.email = users[i].email
             /\ v.decoded.role = users[i].role

C10_Witness ==
    /\ held # NoToken
    /\ held.claims.iat < now
    /\ now < held.claims.exp
    /\ heldFor.role = "admin"
    /\ jwtVerify(held, JwtSecret, now).decoded.role = "admin"

\* this step is the arrival of a request in slot r at authenticate
Arrives(r) == Step(r) /\ Free(r) /\ HasStep(reqs'[r].route, "authenticate")

\* C11: a token of a stored account presented before its expiry is accepted
\* by authenticate; presented after its expiry it is answered 401 "Token
\* expired", which differs from the 401 "Invalid token" of a bad signature
C11_TokenExpired ==
    [][\A r \in Slots :
          /\ (/\ Arrives(r)
              /\ reqs'[r].cred
              /\ reqs'[r].tokErr = ""
              /\ reqs'[r].tokUid \in DOMAIN users)
             => reqs'[r].pc \in {"requireAdmin", "handler"}
          /\ (Arrives(r) /\ reqs'[r].tokErr = "JsonWebTokenError")
             => (reqs'[r].status = 401 /\ reqs'[r].error = "Invalid token")
          /\ (/\ Arrives(r)
              /\ reqs'[r].tokErr = "TokenExpiredError"
              /\ now > held.claims.exp)
             => (reqs'[r].status = 401 /\ reqs'[r].error = "Token expired")]_vars

\* the request in slot r is allowed by the row it names: it is stored, and
\* the caller owns it or is an admin
Allowed(q) == Exists(q) /\ (OwnerId(q) = q.user.id \/ q.user.role = "admin")

\* C12: in every execution of an update or delete handler, interleaved with
\* other requests or not, the mutating store call comes only after the load
\* returned a stored row and the ownership/role check passed: a request gets
\* to the write only from a load that found the row and allowed the caller,
\* only a request at its write changes the store, and a request answered
\* 404 or 403 has changed nothing
C12_CheckBeforeWrite ==
    [][\A r \in Slots :
          /\ (Step(r) /\ reqs'[r].pc = "write" /\ reqs'[r].route \in MutatingRoutes)
             => (reqs[r].pc = "handler" /\ Allowed(reqs[r]) /\ UNCHANGED db)
          /\ (Step(r) /\ reqs'[r].pc = "tx") => reqs[r].pc = "write"
          /\ (/\ Step(r)
              /\ reqs[r].route \in MutatingRoutes
              /\ ~UNCHANGED <<posts, comments>>)
             => reqs[r].pc \in {"write", "tx"}
          /\ (Checks(r) /\ ~Allowed(reqs[r]))
             => (reqs'[r].pc = "done" /\ reqs'[r].status \in {403, 404})]_vars

C12_Witness ==
    \E r \in Slots, o \in Slots :
        /\ r # o
        /\ reqs[r].pc = "done"
        /\ reqs[r].route \in MutatingRoutes
        /\ reqs[r].status \in {200, 204}
        /\ reqs[o].pc = "done"
        /\ reqs[o].route \in MutatingRoutes
        /\ reqs[o].status \in {403, 404}

\* C13: the role update and the account deletion look the target account up
\* by id before they change anything and answer 404 when no account has
\* that id
C13_UserNotFound ==
    [][\A r \in Slots :
          (/\ Step(r)
           /\ reqs[r].pc = "handler"
           /\ reqs[r].route \in UserRoutes
           /\ reqs[r].data # "bad"
           /\ reqs[r].id \notin DOMAIN users)
          => /\ reqs'[r].pc = "done"
             /\ reqs'[r].status = 404
             /\ UNCHANGED db]_vars

\* C14: every post and comment keeps the owner set when it was created:
\* a new row gets a new id and the id of the identity whose request creates
\* it, and no request, an admin's included and whatever its body, changes the
\* userId of a stored row
C14_OwnerFixed ==
    [][/\ \A p \in DOMAIN posts \cap DOMAIN posts' :
             posts'[p].userId = posts[p].userId
       /\ \A c \in DOMAIN comments \cap DOMAIN comments' :
             comments'[c].userId = comments[c].userId
       /\ DOMAIN posts' \ DOMAIN posts \subseteq {postSeq + 1}
       /\ DOMAIN comments' \ DOMAIN comments \subseteq {commentSeq + 1}
       /\ postSeq' >= postSeq
       /\ commentSeq' >= commentSeq
       /\ \A r \in Slots :
             Step(r) =>
                /\ \A p \in DOMAIN posts' \ DOMAIN posts :
                      posts'[p].userId = reqs[r].user.id
                /\ \A c \in DOMAIN comments' \ DOMAIN comments :
                      comments'[c].userId = reqs[r].user.id]_vars

C14_Witness ==
    \E r \in Slots :
        /\ reqs[r].pc = "done"
        /\ reqs[r].route = "updatePost"
        /\ reqs[r].status = 200
        /\ reqs[r].id \in DOMAIN posts
        /\ posts[reqs[r].id].userId # reqs[r].user.id
        /\ \E c \in DOMAIN comments :
              comments[c].userId # posts[reqs[r].id].userId

\* the statuses of a success and of an error response
Applied == {200, 201, 204}

Rejected == {400, 401, 403, 404, 500}

\* C15: every request to a route behind authenticate ends with one outcome,
\* a success response with its mutation committed or an error response; a
\* request changes the stored users, posts and comments in the step that
\* ends it with a success and in no other, so a rejected request leaves
\* them as they were
C15_AppliedOrRejected ==
    [][\A r \in Slots :
          /\ (Step(r) /\ reqs'[r].pc = "done"
                /\ HasStep(reqs'[r].route, "authenticate"))
             => reqs'[r].status \in Applied \cup Rejected
          /\ (Step(r) /\ ~UNCHANGED db)
             => (reqs'[r].pc = "done" /\ reqs'[r].status \in Applied)
          /\ (Step(r) /\ reqs'[r].pc = "done" /\ reqs'[r].status \in Rejected)
             => UNCHANGED db
          /\ (/\ Step(r)
              /\ reqs'[r].pc = "done"
              /\ reqs'[r].route \in MutatingRoutes
              /\ reqs'[r].status \in Applied)
             => (Writes(r) /\ Performed(r))]_vars

C15_Witness ==
    \E r \in Slots :
        /\ reqs[r].pc = "done"
        /\ reqs[r].route = "createAdmin"
        /\ reqs[r].user.role = "admin"
        /\ reqs[r].status = 400
        /\ userSeq > 1

ByAdmin(q) == q.tokUid \in DOMAIN users /\ users[q.tokUid].role = "admin"

\* C17: the user-management operations are served, to admins only: an
\* admin's request to list users, to update a role or to delete a user
\* reaches its handler, and the request of an authenticated caller who is
\* no admin is answered 403; neither arrival changes anything
C17_UserRoutesServed ==
    [][\A r \in Slots :
          (Step(r) /\ Free(r) /\ reqs'[r].route \in UnroutedRoutes)
          => /\ UNCHANGED db
             /\ ByAdmin(reqs'[r]) => reqs'[r].pc \in {"requireAdmin", "handler"}
             /\ (reqs'[r].tokUid \in DOMAIN users /\ ~ByAdmin(reqs'[r]))
                => (reqs'[r].pc = "requireAdmin"
                    \/ (reqs'[r].pc = "done" /\ reqs'[r].status = 403))]_vars

\* C18: an account with role admin comes to exist only through createAdmin
\* run for an authenticated admin: signup stores role user whatever its body
\* says, no stored account changes its role, and an admin-creation request
\* of an anonymous or non-admin caller ends with 401 or 403 and creates no
\* account
C18_AdminCreation ==
    [][\A r \in Slots :
          Step(r) =>
             /\ \A u \in DOMAIN users' \ DOMAIN users :
                   IF reqs[r].pc = "handler" /\ reqs[r].route = "createAdmin"
                   THEN ByAdmin(reqs[r]) /\ reqs[r].user.role = "admin"
                   ELSE reqs'[r].route = "signup" /\ users'[u].role = "user"
             /\ \A u \in DOMAIN users \cap DOMAIN users' :
                   users'[u].role = users[u].role
             /\ (reqs'[r].route = "createAdmin" /\ ~ByAdmin(reqs'[r]))
                => /\ users' = users
                   /\ reqs'[r].pc \in {"requireAdmin", "done"}
                   /\ reqs'[r].pc = "done" => reqs'[r].status \in {401, 403}
                   /\ (reqs'[r].pc = "done" /\ ~reqs'[r].cred)
                      => reqs'[r].status = 401]_vars

C18_Witness ==
    \E r \in Slots :
        /\ reqs[r].pc = "done"
        /\ reqs[r].route = "createAdmin"
        /\ reqs[r].status = 201
        /\ reqs[r].user.role = "admin"
        /\ reqs[r].id # reqs[r].user.id
        /\ reqs[r].id \in DOMAIN users
        /\ users[reqs[r].id].role = "admin"

\* C19: a post stored by the create handler belongs to the authenticated
\* identity of the request, the account its token names, whether the body
\* carries no userId key, the caller's own id or the id of another account
C19_CreatorOwns ==
    [][\A r \in Slots :
          (Step(r) /\ AtHandler(r, "createPost"))
          => /\ reqs[r].user # NoUser
             /\ reqs[r].user.id = reqs[r].tokUid
             /\ \A p \in DOMAIN posts' \ DOMAIN posts :
                   /\ posts'[p].userId = reqs[r].user.id
                   /\ reqs'[r].id = p
                   /\ reqs'[r].status = 201
             /\ reqs'[r].status = 201
                => DOMAIN posts' \ DOMAIN posts # {}]_vars

\* a post created for a request whose body names another account as userId
C19_Witness ==
    \E r \in Slots :
        /\ reqs[r].pc = "done"
        /\ reqs[r].route = "createPost"
        /\ reqs[r].status = 201
        /\ reqs[r].ref \in DOMAIN users
        /\ reqs[r].ref # reqs[r].user.id
        /\ reqs[r].id \in DOMAIN posts
        /\ posts[reqs[r].id].userId = reqs[r].user.id

\* a post-creation request of slot r takes a step while ten requests of the
\* window have been handed to the create handler and it is not one of them
Further(r) ==
    /\ Step(r)
    /\ reqs'[r].route = "createPost"
    /\ reqs[r].pc # "handler"
    /\ admitted = postRateLimits.create.max

\* at most ten requests of a window are handed to the create handler, each
\* by the limiter, and every further one creates no post
AtMostMax ==
    /\ admitted' <= postRateLimits.create.max
    /\ \A r \in Slots :
          /\ (Step(r) /\ reqs'[r].pc = "handler")
             => /\ reqs[r].pc = "createPostLimiter"
                /\ admitted' = admitted + 1
          /\ Further(r) => reqs'[r].pc # "handler" /\ posts' = posts

\* C20 as stated: at most 10 post-creation requests of a window reach the
\* create handler, two in flight included, and every further post-creation
\* request of the window is answered 429 and creates no post
C20_FurtherAnswered429 ==
    [][/\ AtMostMax
       /\ \A r \in Slots :
             (Further(r) /\ reqs'[r].pc = "done") => reqs'[r].status = 429]_vars

\* C20, amended: at most 10 post-creation requests of a window reach the
\* create handler, two in flight included; every further one that passes
\* authenticate is answered 429 by the limiter, one that fails authenticate
\* is answered 401 before the limiter, and neither creates a post
C20_FurtherRefused ==
    [][/\ AtMostMax
       /\ \A r \in Slots :
             Further(r)
             => IF reqs[r].pc = "createPostLimiter"
                THEN reqs'[r].pc = "done" /\ reqs'[r].status = 429
                ELSE \/ reqs'[r].pc = "createPostLimiter" /\ hits' = hits
                     \/ /\ reqs'[r].pc = "done"
                        /\ reqs'[r].status = 401
                        /\ reqs'[r].user = NoUser]_vars

\* the eleventh request of a window is answered 429 while the tenth, handed
\* on by the limiter, is still in the create handler
C20_Witness ==
    \E r, o \in Slots :
        /\ reqs[r].pc = "done"
        /\ reqs[r].route = "createPost"
        /\ reqs[r].status = 429
        /\ reqs[r].user # NoUser
        /\ reqs[o].pc = "handler"
        /\ admitted = postRateLimits.create.max
        /\ hits = postRateLimits.create.max + 1

\* an auth request of slot r takes a step while five requests of the window
\* have been handed to the auth handlers and it is not one of them
FurtherAuth(r) ==
    /\ Step(r)
    /\ reqs'[r].route \in AuthRoutes
    /\ reqs[r].pc \notin {"handler", "write"}
    /\ authAdmitted = authLimiterOptions.max

\* at most five requests of a window are handed to the auth handlers, each
\* by the limiter, and a further one neither creates an account nor issues
\* a token
AuthAtMostMax ==
    /\ authAdmitted' <= authLimiterOptions.max
    /\ \A r \in Slots :
          /\ (Step(r) /\ reqs'[r].pc = "handler")
             => /\ reqs[r].pc = "authLimiter"
                /\ authAdmitted' = authAdmitted + 1
          /\ FurtherAuth(r)
             => /\ reqs'[r].pc # "handler"
                /\ users' = users
                /\ held' = held

\* C21 as stated: at most 5 auth requests of a window reach their handlers
\* and every further auth request of the window is answered 429, creates no
\* account and issues no token
C21_FurtherAuthAnswered429 ==
    [][/\ AuthAtMostMax
       /\ \A r \in Slots :
             (FurtherAuth(r) /\ reqs'[r].pc = "done") => reqs'[r].status = 429]_vars

\* C21, amended: at most 5 auth requests of a window reach their handlers;
\* every further signup or login, and every further admin creation that
\* passes authenticate and requireAdmin, is answered 429; a further admin
\* creation that fails authenticate is answered 401 and one that fails
\* requireAdmin 403, before the limiter; none creates an account or issues a
\* token
C21_FurtherAuthRefused ==
    [][/\ AuthAtMostMax
       /\ \A r \in Slots :
             FurtherAuth(r)
             => IF reqs[r].pc = "authLimiter"
                THEN reqs'[r].pc = "done" /\ reqs'[r].status = 429
                ELSE IF reqs'[r].route # "createAdmin"
                     THEN reqs'[r].pc = "authLimiter"
                ELSE IF reqs[r].pc = "requireAdmin"
                     THEN \/ reqs'[r].pc = "authLimiter" /\ ByAdmin(reqs[r])
                          \/ /\ reqs'[r].pc = "done"
                             /\ reqs'[r].status = 403
                             /\ ~ByAdmin(reqs[r])
                ELSE \/ reqs'[r].pc = "requireAdmin"
                     \/ /\ reqs'[r].pc = "done"
                        /\ reqs'[r].status = 401
                        /\ reqs'[r].user = NoUser]_vars

\* the sixth request of a window, an admin creation by an admin, is answered
\* 429 while one the limiter handed on is still at its handler
C21_Witness ==
    \E r, o \in Slots :
        /\ reqs[r].pc = "done"
        /\ reqs[r].route = "createAdmin"
        /\ reqs[r].status = 429
        /\ reqs[r].user.role = "admin"
        /\ reqs[o].pc = "handler"
        /\ reqs[o].route \in {"signup", "login"}
        /\ authAdmitted = authLimiterOptions.max
        /\ authHits = authLimiterOptions.max + 1

\* C22: for every page and limit the listing's validation accepts, the
\* response is a success with at most limit posts, the total is the number
\* of posts matching the filter, skip is (page-1)*limit and not negative,
\* and pages is ceil(total/limit), a finite integer that is not negative
C22_Pagination ==
    (listing.asked /\ listing.accepted)
    => /\ listing.status = 200
       /\ Len(listing.data) <= listing.limit
       /\ listing.total = Cardinality(Matching(posts, listing.query.userId))
       /\ listing.skip = (listing.page - 1) * listing.limit
       /\ listing.skip >= 0
       /\ listing.pages.finite
       /\ listing.pages.value >= 0
       /\ listing.pages.value * listing.limit >= listing.total
       /\ (listing.pages.value - 1) * listing.limit < listing.total
          \/ listing.pages.value = 0

\* every reference of a stored row names a stored row
References ==
    /\ \A c \in DOMAIN comments :
          comments[c].postId \in DOMAIN posts /\ comments[c].userId \in DOMAIN users
    /\ \A p \in DOMAIN posts : posts[p].userId \in DOMAIN users

\* C23: under every interleaving of comment creation, post deletion and user
\* deletion each comment's postId names a stored post and each post's and
\* comment's userId a stored user, and a comment's create call that comes
\* after its post was deleted stores nothing
C23_ReferencesKept ==
    /\ References
    /\ [][/\ References'
          /\ \A r \in Slots :
                (Step(r) /\ AtWrite(r, "createComment")
                         /\ reqs[r].ref \notin DOMAIN posts)
                => /\ comments' = comments
                   /\ reqs'[r].pc = "done"
                   /\ reqs'[r].status = 500]_vars

\* a comment's create call was refused after another request deleted its
\* post or its author
C23_Witness ==
    \E r, o \in Slots :
        /\ reqs[r].pc = "done"
        /\ reqs[r].route = "createComment"
        /\ reqs[r].status = 500
        /\ reqs[o].pc = "done"
        /\ reqs[o].route \in {"deletePost", "deleteUser"}
        /\ reqs[o].status = 204
        /\ posts = <<>>
        /\ comments = <<>>

C25_NotFoundAfterDelete ==
    [][\A r \in Slots :
          (/\ Step(r)
           /\ reqs[r].pc \in {"write", "tx"}
           /\ reqs[r].route \in MutatingRoutes
           /\ ~Exists(reqs[r])
           /\ reqs'[r].error # "Transaction failed")
          => /\ db' = db
             /\ reqs'[r].pc = "done" => reqs'[r].status = 404]_vars

\* no two accounts with one email
EmailsUnique ==
    \A u, v \in DOMAIN users : users[u].email = users[v].email => u = v

\* C26: a signup or admin creation for an email that is registered, whether
\* it was before the handler's lookup or a request in flight registered it
\* since, is answered 400 'Email already registered' and creates no account,
\* and no two accounts have one email
C26_EmailTaken ==
    /\ EmailsUnique
    /\ [][/\ EmailsUnique'
          /\ \A r \in Slots :
                (/\ Step(r)
                 /\ reqs[r].route \in {"signup", "createAdmin"}
                 /\ reqs[r].pc \in {"handler", "write"})
                => /\ reqs'[r].pc = "write"
                      => findUserByEmail(reqs'[r].data) = NoUser /\ users' = users
                   /\ (reqs[r].pc = "write"
                          /\ findUserByEmail(reqs[r].data) # NoUser)
                      => /\ reqs'[r].pc = "done"
                         /\ reqs'[r].status = 400
                         /\ reqs'[r].error = "Email already registered"
                         /\ users' = users]_vars

\* C27: a comment created through POST /posts/:postId/comments belongs to
\* the post the path names, and when that post is not stored the request,
\* its body being valid, is answered 404 and no comment is created
C27_CommentOnPathPost ==
    [][\A r \in Slots :
          (/\ Step(r)
           /\ reqs[r].route = "createComment"
           /\ reqs[r].data # "bad"
           /\ reqs[r].pc \in {"handler", "write"})
          => /\ \A c \in DOMAIN comments' \ DOMAIN comments :
                   comments'[c].postId = reqs[r].id
             /\ reqs[r].id \notin DOMAIN posts
                => /\ comments' = comments
                   /\ reqs'[r].pc = "done" => reqs'[r].status = 404]_vars

\* C28: a CustomError a user handler raises, here the self-update and the
\* self-deletion guards', is answered by the error handler, when it gets
\* there, with the error's own statusCode and message and not with 500
C28_CustomErrorAnswered ==
    [][\A r \in Slots :
          (/\ Step(r)
           /\ reqs[r].pc = "handler"
           /\ reqs[r].route \in UserRoutes
           /\ reqs[r].data # "bad"
           /\ reqs[r].id = reqs[r].user.id
           /\ reqs'[r].error # "unhandledRejection")
          => /\ reqs'[r].pc = "done"
             /\ reqs'[r].status = 400
             /\ reqs'[r].error = IF reqs[r].route = "updateUserRole"
                                 THEN "Cannot update your own role"
                                 ELSE "Cannot delete your own account"]_vars

\* C29: updateProfile changes the caller's own account only, and of it only
\* the name columns and the password: whatever the body holds, no account's
\* role or email changes and no other user's record, and the password is
\* written only by a request that supplied a new one and whose current
\* password was the stored one when the handler compared them
C29_ProfileFrame ==
    [][/\ users' = users
       /\ DOMAIN profiles' = DOMAIN profiles
       /\ \A r \in Slots :
             Step(r)
             => /\ \A u \in DOMAIN profiles :
                      profiles'[u] # profiles[u]
                      => /\ u = reqs[r].user.id
                         /\ u = reqs[r].tokUid
                         /\ reqs'[r].status = 200
                /\ \A u \in DOMAIN profiles :
                      profiles'[u].password # profiles[u].password
                      => /\ reqs[r].pc = "write"
                         /\ reqs[r].data \in {"pwOld", "pwNew"}
                         /\ profiles'[u].firstName = profiles[u].firstName
                /\ (reqs[r].pc = "handler" /\ reqs'[r].pc = "write")
                   => /\ reqs[r].data \in {"pwOld", "pwNew"}
                      /\ profiles[reqs[r].user.id].password
                            = (IF reqs[r].data = "pwOld" THEN "old" ELSE "new")
                      /\ profiles' = profiles]_vars

\* the second user has a new name and a new password, the first user's
\* record is as it was, and the last request was answered
C29_Witness ==
    \E r \in Slots :
        /\ reqs[r].pc = "done"
        /\ reqs[r].route = "updateProfile"
        /\ reqs[r].status = 200
        /\ reqs[r].user.id = 2
        /\ profiles[2] = [firstName |-> "new", password |-> "new"]
        /\ profiles[1] = [firstName |-> "old", password |-> "old"]
        /\ users[2].role = "user"

\* C30: once SIGTERM was received the process exits with code 0 only after
\* the server has closed and the database connection is disconnected, with
\* code 1 when closing or disconnecting fails or the force timeout fires
\* first, and never before the close of the server has been attempted
C30_GracefulExit ==
    [][(proc.exit = -1 /\ proc'.exit # -1 /\ proc'.signal = "SIGTERM")
       => /\ proc'.closing
          /\ proc'.exit \in {0, 1}
          /\ proc'.exit = 0 => proc'.closed /\ proc'.disconnected]_vars

====
